---- MODULE Spec2Model ----
(***************************************************************************)
(* A model of veve's execution scheduler, src/framework/Run.ts: the Run    *)
(* class (execute, evaluateCondition, run) over a registered TestCase; of  *)
(* the assertion evaluator, src/framework/Assertion.ts; and of the call    *)
(* tracker Fn that the tracked matchers of the evaluator query.            *)
(*                                                                         *)
(* One action is one synchronous stretch of the JavaScript code, from the  *)
(* resumption of an await to the next await.  Executables are records      *)
(* {description, fn, options} as in Run.execute; what a body or a          *)
(* condition predicate does when called is given by its kind.              *)
(***************************************************************************)
EXTENDS Integers, Sequences, FiniteSets, TLC

VARIABLES
  cpuCount,          \* cpus().length when the Run object is constructed
  maxParallelTests,  \* the field Run.MAX_PARALLEL_TESTS
  testCase,          \* the registered TestCase: tests, onlyTests, hooks
  pc,                \* where run() stands
  i,                 \* the batch loop's index i of run()
  report,            \* the TestReport run() builds
  main,              \* the execute() call run() itself awaits (beforeAll, afterAll)
  tasks,             \* per selected test, the batch.map callback of that test
  batches,           \* the value of `batch` in each iteration so far
  abandoned,         \* bodies that lost the timeout race and still run
  assertion,         \* an Assertion object: received, isNot, isTracked, throws
  chain,             \* what the expression under evaluation holds: the
                     \* Assertion itself or its resolves / rejects proxy
  nots,              \* accesses of `not` since the last matcher call
  projection,        \* the projection last read in the expression under
                     \* evaluation: "resolves", "rejects", or "" for none
  trackFn,           \* a tracked function made by Fn(original)
  last               \* the last operation on assertion or fn, and its outcome

runVars ==
  <<cpuCount, maxParallelTests, testCase, pc, i, report, main, tasks, batches,
    abandoned>>

assertVars == <<assertion, chain, nots, projection, trackFn, last>>

vars == <<runVars, assertVars>>

(***************************************************************************)
(* Bounds of the model.                                                    *)
(***************************************************************************)
MaxTests == 2
MaxRetry == 2
MaxBatchCpus == 5
MaxBatchTests == 6
MaxInvocations == 3
MaxNots == 2

MaxNesting == 2

(***************************************************************************)
(* Values.                                                                 *)
(***************************************************************************)
Min(a, b) == IF a < b THEN a ELSE b

Range(s) == {s[k] : k \in DOMAIN s}

\* The values an `if` option takes: a boolean, null, undefined, or a
\* predicate, named after what it does when called.
Predicates == {"fnTrue", "fnFalse", "fnNull", "fnUndefined", "fnThrows"}
Conditions == {"true", "false", "null", "undefined"} \cup Predicates

\* What a body does when invoked.
BodyKinds ==
  {"pass", "throwError", "throwString", "throwNull", "flaky", "slow", "hang"}

Timeouts == {0, 50}

Options ==
  [timeout : Timeouts, skip : BOOLEAN, if : Conditions, softFail : BOOLEAN,
   retry : 0..MaxRetry]

DefaultOptions ==
  [timeout |-> 0, skip |-> FALSE, if |-> "true", softFail |-> FALSE, retry |-> 0]

Executable(description, fn, options) ==
  [description |-> description, fn |-> fn, options |-> options]

\* Messages.  `undefined` is the value of a missing property; every other
\* message is a string.
Undefined == [soft |-> FALSE, text |-> "undefined", who |-> <<"", 0>>, num |-> 0]

\* `${description} exceeded ${timeout} ms.`
TimeoutMessage(description, timeout) ==
  [soft |-> FALSE, text |-> "exceeded ms.", who |-> description, num |-> timeout]

\* The message of the Error a failing body throws on its n-th invocation.
BodyMessage(description, n) ==
  [soft |-> FALSE, text |-> "body failed", who |-> description, num |-> n]

\* `Soft failure: ${message}`
SoftFailureMessage(message) == [message EXCEPT !.soft = TRUE]

ErrorValue(message) == [kind |-> "Error", message |-> message, stack |-> "stack"]
StringValue == [kind |-> "string", message |-> Undefined, stack |-> "undefined"]
NullValue == [kind |-> "null", message |-> Undefined, stack |-> "undefined"]
TypeErrorValue ==
  [kind |-> "TypeError",
   message |-> [soft |-> FALSE, text |-> "cannot read properties of null",
                who |-> <<"", 0>>, num |-> 0],
   stack |-> "stack"]

\* Mutant of MAX_PARALLEL_TESTS: Math.max(cpus().length, 4).
MaxParallelFloorFour(c) == IF c > 4 THEN c ELSE 4

(***************************************************************************)
(* Run.MAX_PARALLEL_TESTS = cpus().length || 4                             *)
(***************************************************************************)
MAX_PARALLEL_TESTS(c) == IF c # 0 THEN c ELSE 4

(***************************************************************************)
(* Run.evaluateCondition and Run.execute.                                  *)
(***************************************************************************)
IsFunction(condition) == condition \in Predicates

\* a ?? b
Coalesce(a, b) == IF a \in {"null", "undefined"} THEN b ELSE a

\* What awaiting condition() gives: a value, or "throws".
CallPredicate(condition) ==
  CASE condition = "fnTrue" -> "true"
    [] condition = "fnFalse" -> "false"
    [] condition = "fnNull" -> "null"
    [] condition = "fnUndefined" -> "undefined"
    [] condition = "fnThrows" -> "throws"

PredicateError ==
  ErrorValue([soft |-> FALSE, text |-> "predicate failed", who |-> <<"", 0>>,
              num |-> 0])

\* Mutant of evaluateCondition: the predicate's result defaults to true too.
evaluateConditionDefaultTrue(condition) ==
  IF IsFunction(condition)
  THEN LET r == CallPredicate(condition)
       IN  IF r = "throws" THEN "throws" ELSE Coalesce(r, "true")
  ELSE Coalesce(condition, "true")

evaluateCondition(condition) ==
  IF IsFunction(condition)
  THEN LET r == CallPredicate(condition)
       IN  IF r = "throws" THEN "throws" ELSE Coalesce(r, "false")
  ELSE Coalesce(condition, "true")

NewResult(description) ==
  [description |-> description, retries |-> 0, status |-> "passed", error |-> <<>>]

\* Mutant of ShortCircuit: the skip option is not looked at.
ShortCircuitWithoutSkip(options) ==
  options.if = "undefined" \/ options.if = "null"

\* The part of the gate decided without awaiting anything:
\* skip || condition === undefined || condition === null
ShortCircuit(options) ==
  options.skip \/ options.if = "undefined" \/ options.if = "null"

\* Mutant of Invoke: the predicate is called again before every attempt.
InvokeAfterPredicate(f) ==
  [f EXCEPT !.phase = "running", !.calls = @ + 1,
            !.predCalls = IF IsFunction(f.exe.options.if) THEN @ + 1 ELSE @]

\* fn() is called: one more invocation of the body is in flight.
Invoke(f) == [f EXCEPT !.phase = "running", !.calls = @ + 1]

\* execute(executable) up to its first await.  A predicate is called here,
\* inside evaluateCondition, and its result awaited.
Begin(executable) ==
  LET f == [exe |-> executable, phase |-> "gate",
            result |-> NewResult(executable.description),
            calls |-> 0, predCalls |-> 0, lastError |-> <<>>, thrown |-> <<>>]
  IN  IF ShortCircuit(executable.options)
      THEN [f EXCEPT !.phase = "returned", !.result.status = "skipped"]
      ELSE [f EXCEPT !.predCalls = IF IsFunction(executable.options.if) THEN 1 ELSE 0]

\* Mutant of AfterGate: a predicate that throws is caught and fails the test.
AfterGateCatching(f) ==
  LET v == evaluateCondition(f.exe.options.if)
  IN  CASE v = "throws" ->
             [f EXCEPT !.phase = "returned", !.result.status = "failed",
                       !.result.error = <<[message |-> PredicateError.message,
                                           stack |-> PredicateError.stack]>>]
        [] v = "true" -> Invoke(f)
        [] OTHER -> [f EXCEPT !.phase = "returned", !.result.status = "skipped"]

\* execute() resumes with the value of evaluateCondition(condition).
AfterGate(f) ==
  LET v == evaluateCondition(f.exe.options.if)
  IN  CASE v = "throws" ->
             [f EXCEPT !.phase = "threw", !.thrown = <<PredicateError>>]
        [] v = "true" -> Invoke(f)
        [] OTHER -> [f EXCEPT !.phase = "returned", !.result.status = "skipped"]

\* How the attempt in flight can end: the awaited promise fulfils ("ok"),
\* rejects with what the body threw ("throw"), or rejects with the timer's
\* Error ("timeout") while the body runs on (left: will it ever settle).
Outcome(how, value, left) == [how |-> how, value |-> value, left |-> left]

Outcomes(f) ==
  LET fn == f.exe.fn
      timeout == f.exe.options.timeout
      ok == Outcome("ok", <<>>, "none")
      fails == Outcome("throw",
                       <<ErrorValue(BodyMessage(f.exe.description, f.calls))>>,
                       "none")
      timesOut(left) ==
        Outcome("timeout",
                <<ErrorValue(TimeoutMessage(f.exe.description, timeout))>>, left)
  IN  CASE fn = "pass" -> {ok}
        [] fn = "throwError" -> {fails}
        [] fn = "throwString" -> {Outcome("throw", <<StringValue>>, "none")}
        [] fn = "throwNull" -> {Outcome("throw", <<NullValue>>, "none")}
        [] fn = "flaky" -> {ok, fails}
        [] fn = "slow" -> IF timeout > 0 THEN {timesOut("slow")} ELSE {ok}
        [] fn = "hang" -> IF timeout > 0 THEN {timesOut("hang")} ELSE {}

\* lastError.message and lastError.stack are read: a TypeError when lastError
\* is null or undefined.
Finalize(f, lastError) ==
  IF lastError.kind = "null"
  THEN [f EXCEPT !.phase = "threw", !.thrown = <<TypeErrorValue>>,
                 !.result.status = IF f.exe.options.softFail
                                   THEN "soft-fail" ELSE "failed"]
  ELSE IF f.exe.options.softFail
       THEN [f EXCEPT !.phase = "returned",
                      !.result.status = "soft-fail",
                      !.result.error =
                         <<[message |-> SoftFailureMessage(lastError.message),
                            stack |-> lastError.stack]>>]
       ELSE [f EXCEPT !.phase = "returned",
                      !.result.status = "failed",
                      !.result.error =
                         <<[message |-> lastError.message,
                            stack |-> lastError.stack]>>]

\* Mutant of AfterAttempt: a timeout ends the execution without a retry.
AfterAttemptTimeoutFinal(f, o) ==
  IF o.how = "ok"
  THEN [f EXCEPT !.phase = "returned"]
  ELSE LET g == [f EXCEPT !.lastError = o.value, !.result.retries = @ + 1]
       IN  IF g.result.retries > g.exe.options.retry \/ o.how = "timeout"
           THEN Finalize(g, g.lastError[1])
           ELSE Invoke(g)

\* Mutant of AfterAttempt: lastError keeps the error of the first failure.
AfterAttemptFirstError(f, o) ==
  IF o.how = "ok"
  THEN [f EXCEPT !.phase = "returned"]
  ELSE LET g == [f EXCEPT !.lastError = IF @ = <<>> THEN o.value ELSE @,
                          !.result.retries = @ + 1]
       IN  IF g.result.retries > g.exe.options.retry
           THEN Finalize(g, g.lastError[1])
           ELSE Invoke(g)

\* Mutant of AfterAttempt: the last attempt is recognised one failure late.
AfterAttemptOneMore(f, o) ==
  IF o.how = "ok"
  THEN [f EXCEPT !.phase = "returned"]
  ELSE LET g == [f EXCEPT !.lastError = o.value, !.result.retries = @ + 1]
       IN  IF g.result.retries > g.exe.options.retry + 1
           THEN Finalize(g, g.lastError[1])
           ELSE Invoke(g)

\* The body of the while loop after the await of one attempt: return on
\* success; in the catch, count the retry, finalize after the last attempt,
\* otherwise loop and call fn() again.
AfterAttempt(f, o) ==
  IF o.how = "ok"
  THEN [f EXCEPT !.phase = "returned"]
  ELSE LET g == [f EXCEPT !.lastError = o.value, !.result.retries = @ + 1]
       IN  IF g.result.retries > g.exe.options.retry
           THEN Finalize(g, g.lastError[1])
           ELSE Invoke(g)

(***************************************************************************)
(* Run.run.                                                                *)
(***************************************************************************)
Phases == {"beforeAll", "beforeEach", "afterAll", "afterEach"}

HasHook(phase) == testCase.hooks[phase] # <<>>

TheHook(phase) == testCase.hooks[phase][1]

\* Mutant of TestsToRun: the exclusive tests are not looked at.
TestsToRunIgnoringOnly == testCase.tests

\* testsToRun: onlyTests when there are any, otherwise tests.
TestsToRun ==
  IF Len(testCase.onlyTests) > 0 THEN testCase.onlyTests ELSE testCase.tests

\* Mutant of Slice: the end position is taken too.
SliceInclusive(array, start, end) ==
  SubSeq(array, start + 1, Min(end + 1, Len(array)))

\* Mutant of Slice: array.slice(start), the end is not given.
SliceToEnd(array, start, end) == SubSeq(array, start + 1, Len(array))

\* array.slice(start, end), on 0-based positions.
Slice(array, start, end) == SubSeq(array, start + 1, Min(end, Len(array)))

\* The selected tests by their position in testsToRun, 1-based.
Positions == [k \in 1..Len(TestsToRun) |-> k]

EmptyReport ==
  [stats |-> [total |-> 0, passed |-> 0, failed |-> 0, skipped |-> 0,
              softFailed |-> 0],
   status |-> "passed",
   tests |-> <<>>,
   hooks |-> <<>>]

PendingTask == [stage |-> "pending", cur |-> <<>>, result |-> <<>>]

\* Mutant of StartTask: no beforeEach for a test that is to be skipped.
StartTaskUnlessSkipped(t) ==
  IF HasHook("beforeEach") /\ ~TestsToRun[t].options.skip
  THEN [stage |-> "beforeEach", cur |-> <<Begin(TheHook("beforeEach"))>>,
        result |-> <<>>]
  ELSE [stage |-> "test", cur |-> <<Begin(TestsToRun[t])>>, result |-> <<>>]

\* The callback of batch.map for the test at position t, up to its first
\* await: execute(beforeEach) when that hook is registered, else execute(test).
StartTask(t) ==
  IF HasHook("beforeEach")
  THEN [stage |-> "beforeEach", cur |-> <<Begin(TheHook("beforeEach"))>>,
        result |-> <<>>]
  ELSE [stage |-> "test", cur |-> <<Begin(TestsToRun[t])>>, result |-> <<>>]

\* Mutant of Tally: no branch for soft-fail, which falls to the last one.
TallyWithoutSoftFail(rep, result) ==
  CASE result.status = "passed" -> [rep EXCEPT !.stats.passed = @ + 1]
    [] result.status = "skipped" -> [rep EXCEPT !.stats.skipped = @ + 1]
    [] OTHER -> [rep EXCEPT !.stats.failed = @ + 1, !.status = "failed"]

\* Mutant of Tally: a skipped result is passed over.
TallyWithoutSkipped(rep, result) ==
  CASE result.status = "passed" -> [rep EXCEPT !.stats.passed = @ + 1]
    [] result.status = "skipped" -> rep
    [] result.status = "soft-fail" -> [rep EXCEPT !.stats.softFailed = @ + 1]
    [] OTHER -> [rep EXCEPT !.stats.failed = @ + 1, !.status = "failed"]

\* The loop `for (const result of results)` over one batch's results.
Tally(rep, result) ==
  CASE result.status = "passed" -> [rep EXCEPT !.stats.passed = @ + 1]
    [] result.status = "skipped" -> [rep EXCEPT !.stats.skipped = @ + 1]
    [] result.status = "soft-fail" -> [rep EXCEPT !.stats.softFailed = @ + 1]
    [] OTHER -> [rep EXCEPT !.stats.failed = @ + 1, !.status = "failed"]

RECURSIVE Aggregate(_, _)
Aggregate(rep, results) ==
  IF results = <<>>
  THEN rep
  ELSE Aggregate(Tally(rep, Head(results)), Tail(results))

\* Mutant of LoopFrom: afterAll is left out once a test has failed.
LoopFromNoAfterAllOnFailure(k, ts) ==
  /\ i' = k
  /\ IF k < Len(TestsToRun)
     THEN LET batch == Slice(Positions, k, k + maxParallelTests)
          IN  /\ pc' = "batch"
              /\ batches' = Append(batches, batch)
              /\ tasks' = [t \in DOMAIN ts |->
                             IF t \in Range(batch) THEN StartTask(t) ELSE ts[t]]
              /\ main' = <<>>
     ELSE /\ batches' = batches
          /\ tasks' = ts
          /\ IF HasHook("afterAll") /\ report'.status # "failed"
             THEN /\ pc' = "afterAll"
                  /\ main' = <<Begin(TheHook("afterAll"))>>
             ELSE /\ pc' = "done"
                  /\ main' = <<>>

\* The batch loop from index k on: the next batch is sliced and every one of
\* its callbacks started; after the last batch afterAll is started, or run()
\* returns the report.
LoopFrom(k, ts) ==
  /\ i' = k
  /\ IF k < Len(TestsToRun)
     THEN LET batch == Slice(Positions, k, k + maxParallelTests)
          IN  /\ pc' = "batch"
              /\ batches' = Append(batches, batch)
              /\ tasks' = [t \in DOMAIN ts |->
                             IF t \in Range(batch) THEN StartTask(t) ELSE ts[t]]
              /\ main' = <<>>
     ELSE /\ batches' = batches
          /\ tasks' = ts
          /\ IF HasHook("afterAll")
             THEN /\ pc' = "afterAll"
                  /\ main' = <<Begin(TheHook("afterAll"))>>
             ELSE /\ pc' = "done"
                  /\ main' = <<>>

\* Mutant of EnterBatches: a failed beforeAll ends the run.
EnterBatchesUnlessFailed(rep) ==
  IF rep.hooks # <<>> /\ rep.hooks[1].status = "failed"
  THEN /\ report' = rep
       /\ pc' = "done"
       /\ main' = <<>>
       /\ UNCHANGED <<i, tasks, batches>>
  ELSE /\ report' = [rep EXCEPT !.stats.total = Len(TestsToRun)]
       /\ LoopFrom(0, tasks)

\* testsToRun is chosen, stats.total set, and the loop entered.
EnterBatches(rep) ==
  /\ report' = [rep EXCEPT !.stats.total = Len(TestsToRun)]
  /\ LoopFrom(0, tasks)

\* run() is called.
RunStart ==
  /\ pc = "init"
  /\ UNCHANGED <<assertVars, cpuCount, maxParallelTests, testCase, abandoned>>
  /\ IF HasHook("beforeAll")
     THEN /\ pc' = "beforeAll"
          /\ main' = <<Begin(TheHook("beforeAll"))>>
          /\ report' = EmptyReport
          /\ UNCHANGED <<i, tasks, batches>>
     ELSE EnterBatches(EmptyReport)

\* The execute() calls in flight: slot 0 is the one run() awaits itself,
\* slot t the one the callback of test t awaits.
Slots == {0} \cup DOMAIN tasks

HasFrame(s) == IF s = 0 THEN main # <<>> ELSE tasks[s].cur # <<>>

FrameAt(s) == IF s = 0 THEN main[1] ELSE tasks[s].cur[1]

PutFrame(s, f) ==
  IF s = 0
  THEN main' = <<f>> /\ tasks' = tasks
  ELSE main' = main /\ tasks' = [tasks EXCEPT ![s].cur = <<f>>]

\* Is the execute() call of slot s that of a test, or of a hook?
RoleAt(s) == IF s # 0 /\ tasks[s].stage = "test" THEN "test" ELSE "hook"

\* The await of evaluateCondition settles.
GateResume(s) ==
  /\ HasFrame(s)
  /\ FrameAt(s).phase = "gate"
  /\ PutFrame(s, AfterGate(FrameAt(s)))
  /\ UNCHANGED <<assertVars, cpuCount, maxParallelTests, testCase, pc, i, report, batches,
                 abandoned>>

\* The await of one attempt settles: fn() or the timer.
AttemptSettle(s) ==
  /\ HasFrame(s)
  /\ FrameAt(s).phase = "running"
  /\ \E o \in Outcomes(FrameAt(s)) :
       /\ PutFrame(s, AfterAttempt(FrameAt(s), o))
       /\ abandoned' =
            IF o.left = "none"
            THEN abandoned
            ELSE [abandoned EXCEPT ![<<RoleAt(s), o.left>>] = @ + 1]
  /\ UNCHANGED <<assertVars, cpuCount, maxParallelTests, testCase, pc, i, report, batches>>

\* Mutant of AbandonedSettle: the late settlement makes run() fail.
AbandonedSettleRejecting ==
  /\ \E role \in {"test", "hook"} :
       /\ abandoned[<<role, "slow">>] > 0
       /\ abandoned' = [abandoned EXCEPT ![<<role, "slow">>] = @ - 1]
  /\ pc' = "rejected"
  /\ UNCHANGED <<assertVars, cpuCount, maxParallelTests, testCase, i, report, main,
                 tasks, batches>>

\* An abandoned body settles at last; nothing awaits it.
AbandonedSettle ==
  /\ \E role \in {"test", "hook"} :
       /\ abandoned[<<role, "slow">>] > 0
       /\ abandoned' = [abandoned EXCEPT ![<<role, "slow">>] = @ - 1]
  /\ UNCHANGED <<assertVars, cpuCount, maxParallelTests, testCase, pc, i, report, main,
                 tasks, batches>>

\* Mutant of PushHook: the hook's result is counted like a test's.
PushHookTallied(rep, result) ==
  Tally([rep EXCEPT !.hooks = Append(@, result)], result)

PushHook(rep, result) == [rep EXCEPT !.hooks = Append(@, result)]

\* Mutant of PushTest: the result is put in front of the earlier ones.
PushTestFirst(rep, result) == [rep EXCEPT !.tests = <<result>> \o @]

PushTest(rep, result) == [rep EXCEPT !.tests = Append(@, result)]

\* Mutant of AfterTest: afterEach runs after a passed test only.
AfterTestOnlyPassed(result) ==
  IF HasHook("afterEach") /\ result.status = "passed"
  THEN [stage |-> "afterEach", cur |-> <<Begin(TheHook("afterEach"))>>,
        result |-> <<result>>]
  ELSE [stage |-> "done", cur |-> <<>>, result |-> <<result>>]

\* The callback after the test's result was pushed: afterEach if there is
\* one, whatever the result, else the callback returns the result.
AfterTest(result) ==
  IF HasHook("afterEach")
  THEN [stage |-> "afterEach", cur |-> <<Begin(TheHook("afterEach"))>>,
        result |-> <<result>>]
  ELSE [stage |-> "done", cur |-> <<>>, result |-> <<result>>]

\* run() resumes after `await this.execute(...)` of beforeAll or afterAll.
MainContinue ==
  /\ main # <<>>
  /\ main[1].phase \in {"returned", "threw"}
  /\ UNCHANGED <<assertVars, cpuCount, maxParallelTests, testCase, abandoned>>
  /\ IF main[1].phase = "threw"
     THEN /\ pc' = "rejected"
          /\ main' = <<>>
          /\ UNCHANGED <<i, report, tasks, batches>>
     ELSE IF pc = "beforeAll"
          THEN EnterBatches(PushHook(report, main[1].result))
          ELSE /\ pc' = "done"
               /\ main' = <<>>
               /\ report' = PushHook(report, main[1].result)
               /\ UNCHANGED <<i, tasks, batches>>

\* Mutant of AfterRejection: the rejected callback is not noticed.
AfterRejectionUnnoticed(current) == current

\* Promise.all rejects as soon as one callback does, and run(), which awaits
\* it without a try, rejects with it; a later rejection changes nothing.
AfterRejection(current) == IF current = "batch" THEN "rejected" ELSE current

\* The callback of test t resumes after one of its awaits of execute().  A
\* fault out of execute() rejects the callback, and with it Promise.all and
\* run().
TaskContinue(t) ==
  /\ t \in DOMAIN tasks
  /\ tasks[t].cur # <<>>
  /\ tasks[t].cur[1].phase \in {"returned", "threw"}
  /\ UNCHANGED <<assertVars, cpuCount, maxParallelTests, testCase, i, main, batches,
                 abandoned>>
  /\ LET f == tasks[t].cur[1]
         stage == tasks[t].stage
     IN  IF f.phase = "threw"
         THEN /\ tasks' = [tasks EXCEPT ![t] = [stage |-> "rejected",
                                                cur |-> <<>>, result |-> <<>>]]
              /\ pc' = AfterRejection(pc)
              /\ report' = report
         ELSE /\ pc' = pc
              /\ CASE stage = "beforeEach" ->
                        /\ report' = PushHook(report, f.result)
                        /\ tasks' = [tasks EXCEPT ![t] =
                                       [stage |-> "test",
                                        cur |-> <<Begin(TestsToRun[t])>>,
                                        result |-> <<>>]]
                   [] stage = "test" ->
                        /\ report' = PushTest(report, f.result)
                        /\ tasks' = [tasks EXCEPT ![t] = AfterTest(f.result)]
                   [] stage = "afterEach" ->
                        /\ report' = PushHook(report, f.result)
                        /\ tasks' = [tasks EXCEPT ![t].stage = "done",
                                                  ![t].cur = <<>>]

\* Mutant of Settled: the callback returns without awaiting afterEach.
SettledBeforeAfterEach(task) == task.stage \in {"afterEach", "done"}

\* The callback of one test has returned its result: every await in it is
\* over.
Settled(task) == task.stage = "done"

\* Promise.all of the batch fulfils: the results are tallied in batch order
\* and the loop goes on.
BatchSettled ==
  /\ pc = "batch"
  /\ LET batch == batches[Len(batches)]
     IN  /\ \A k \in DOMAIN batch : Settled(tasks[batch[k]])
         /\ LET results == [k \in DOMAIN batch |-> tasks[batch[k]].result[1]]
                cleared == [t \in DOMAIN tasks |->
                              IF t \in Range(batch)
                              THEN [tasks[t] EXCEPT !.result = <<>>]
                              ELSE tasks[t]]
            IN  /\ report' = Aggregate(report, results)
                /\ LoopFrom(i + maxParallelTests, cleared)
  /\ UNCHANGED <<assertVars, cpuCount, maxParallelTests, testCase, abandoned>>

Next ==
  \/ RunStart
  \/ \E s \in Slots : GateResume(s)
  \/ \E s \in Slots : AttemptSettle(s)
  \/ AbandonedSettle
  \/ MainContinue
  \/ \E t \in DOMAIN tasks : TaskContinue(t)
  \/ BatchSettled

(***************************************************************************)
(* The call tracker Fn.  Fn.ts is not among the sources; the tracker is    *)
(* modelled from section 4.3 of the specification and from Fn.mdx.         *)
(***************************************************************************)
\* The argument lists of the invocations, and what the wrapped and the
\* substituted implementations do with them.
ArgLists == {<<1, 2>>, <<3, 4>>}

Originals == {"add", "constant", "throwing"}

Substitutes == {"multiply"}

Returned(value) == [how |-> "returned", value |-> value]

Threw(error) == [how |-> "threw", value |-> error]

Apply(implementation, args) ==
  CASE implementation = "add" -> Returned(args[1] + args[2])
    [] implementation = "multiply" -> Returned(args[1] * args[2])
    [] implementation = "constant" -> Returned(42)
    [] implementation = "throwing" -> Threw("Original error")

NoOverride == [kind |-> "none", value |-> 0]

Overrides ==
  {[kind |-> "return", value |-> 5],
   [kind |-> "throw", value |-> "Custom error"],
   [kind |-> "use", value |-> "multiply"]}

\* Fn(original): nothing recorded, nothing overridden.
Fn(original) ==
  [original |-> original, override |-> NoOverride, calls |-> <<>>,
   called |-> FALSE]

\* What an invocation does: the override if there is one, else the wrapped
\* implementation.
Behaviour(f, args) ==
  CASE f.override.kind = "return" -> Returned(f.override.value)
    [] f.override.kind = "throw" -> Threw(f.override.value)
    [] f.override.kind = "use" -> Apply(f.override.value, args)
    [] OTHER -> Apply(f.original, args)

\* One call record: the arguments and either the returned value or the
\* thrown error.
CallRecord(args, outcome) ==
  [args |-> args,
   returned |-> IF outcome.how = "returned" THEN <<outcome.value>> ELSE <<>>,
   threw |-> IF outcome.how = "threw" THEN <<outcome.value>> ELSE <<>>]

\* Mutant of Invoked: an invocation answered by return() or throw() is
\* not recorded.
InvokedUnrecordedWhenForced(f, args) ==
  IF f.override.kind \in {"return", "throw"}
  THEN [f EXCEPT !.called = TRUE]
  ELSE [f EXCEPT !.calls = Append(@, CallRecord(args, Behaviour(f, args))),
                 !.called = TRUE]

\* The tracker after f(...args).
Invoked(f, args) ==
  [f EXCEPT !.calls = Append(@, CallRecord(args, Behaviour(f, args))),
            !.called = TRUE]

\* return(value), throw(error), use(altFn).
Overridden(f, override) == [f EXCEPT !.override = override]

\* Mutant of Reset: the override is kept.
ResetKeepingOverride(f) == [f EXCEPT !.calls = <<>>, !.called = FALSE]

\* reset(): the records are cleared and the override removed.
Reset(f) ==
  [f EXCEPT !.calls = <<>>, !.called = FALSE, !.override = NoOverride]

\* Mutant of Clear: the override is removed too.
ClearRemovingOverride(f) == [f EXCEPT !.calls = <<>>, !.override = NoOverride]

\* clear(): the records are cleared; overrides stay, and so does the answer
\* of wasCalled().
Clear(f) == [f EXCEPT !.calls = <<>>]

\* The queries.
RECURSIVE SelectValues(_, _)
SelectValues(calls, field) ==
  IF calls = <<>>
  THEN <<>>
  ELSE Head(calls)[field] \o SelectValues(Tail(calls), field)

getAllArgs(f) == [k \in DOMAIN f.calls |-> f.calls[k].args]

getReturnValues(f) == SelectValues(f.calls, "returned")

getExceptions(f) == SelectValues(f.calls, "threw")

getCallCount(f) == Len(f.calls)

wasCalled(f) == f.called

wasCalledTimes(f, n) == getCallCount(f) = n

wasCalledWith(f, args) == \E k \in DOMAIN f.calls : f.calls[k].args = args

\* The operations of a test body on the tracked function.  `last` keeps the
\* operation, the one before it, the tracker as it was, and the argument
\* lists of the invocations since the records were last emptied.
Operated(op, args, invoked) ==
  [op |-> op, prev |-> last.op, args |-> args, before |-> trackFn,
   invoked |-> invoked]

FnInvoke ==
  /\ Len(trackFn.calls) < MaxInvocations
  /\ \E args \in ArgLists :
       /\ trackFn' = Invoked(trackFn, args)
       /\ last' = Operated("invoke", args, Append(last.invoked, args))
  /\ UNCHANGED <<runVars, assertion, chain, nots, projection>>

FnOverride ==
  /\ \E override \in Overrides :
       /\ override # trackFn.override
       /\ trackFn' = Overridden(trackFn, override)
       /\ last' = Operated(override.kind, <<>>, last.invoked)
  /\ UNCHANGED <<runVars, assertion, chain, nots, projection>>

FnReset ==
  /\ last.op # "reset"
  /\ trackFn' = Reset(trackFn)
  /\ last' = Operated("reset", <<>>, <<>>)
  /\ UNCHANGED <<runVars, assertion, chain, nots, projection>>

FnClear ==
  /\ last.op # "clear"
  /\ trackFn' = Clear(trackFn)
  /\ last' = Operated("clear", <<>>, <<>>)
  /\ UNCHANGED <<runVars, assertion, chain, nots, projection>>

NextFn == FnInvoke \/ FnOverride \/ FnReset \/ FnClear

(***************************************************************************)
(* The assertion evaluator, Assertion.ts.                                  *)
(***************************************************************************)
\* JavaScript values: undefined, null, numbers, Error objects, functions,
\* the tracked function (whose records are in trackFn), and promises that
\* fulfil with or reject with one of the others.
JsValue(type, num, text) ==
  [type |-> type, num |-> num, text |-> text, how |-> "", of |-> ""]

JsUndefined == JsValue("undefined", 0, "")

JsNull == JsValue("null", 0, "")

JsNumber(n) == JsValue("number", n, "")

JsError(message) == JsValue("error", 0, message)

JsFunction == JsValue("function", 0, "")

JsTracked == JsValue("tracked", 0, "")

JsPromise(how, inner) ==
  [type |-> "promise", num |-> inner.num, text |-> inner.text, how |-> how,
   of |-> inner.type]

\* The value a promise fulfils with, or the reason it rejects with.
Inner(promise) == JsValue(promise.of, promise.num, promise.text)

\* `await value`: a promise settles as it does, any other value is the
\* fulfilment.
Awaited(value) ==
  IF value.type = "promise"
  THEN [how |-> value.how, value |-> Inner(value)]
  ELSE [how |-> "fulfilled", value |-> value]

\* isFn of Fn.ts: the value was made by Fn.
isFn(value) == value.type = "tracked"

\* new Assertion(received, throws): assert(received) has throws = true,
\* is(received) has throws = false.
NewAssertion(received, throws) ==
  [received |-> received, isNot |-> FALSE, isTracked |-> isFn(received),
   throws |-> throws]

\* No Assertion has been constructed.
NoAssertion ==
  [received |-> <<>>, isNot |-> FALSE, isTracked |-> FALSE, throws |-> FALSE]

\* What a matcher call does: it returns the Assertion ("this"), true or
\* false, or it raises an error.
NoError == [class |-> "", matcher |-> "", text |-> ""]

ReturnsValue(value) == [kind |-> "returned", value |-> value, error |-> NoError]

Raises(error) == [kind |-> "raised", value |-> "", error |-> error]

AssertionError(matcher) ==
  [class |-> "AssertionError", matcher |-> matcher, text |-> ""]

UsageError(matcher) ==
  [class |-> "Error", matcher |-> matcher,
   text |-> "can only be used with tracked functions"]

TypeErrorOf(matcher) ==
  [class |-> "TypeError", matcher |-> matcher, text |-> ""]

ResolveRejectedError ==
  [class |-> "Error", matcher |-> "",
   text |-> "Expected Promise to resolve but it rejected with"]

RejectResolvedMessage == "Expected Promise to reject but it resolved."

\* Mutant of assert: isNot is not looked at.
assertIgnoringNot(a, condition, matcher) ==
  IF ~condition
  THEN IF a.throws THEN Raises(AssertionError(matcher)) ELSE ReturnsValue("false")
  ELSE IF a.throws THEN ReturnsValue("this") ELSE ReturnsValue("true")

\* The private method assert(condition, message, matcher).
assert(a, condition, matcher) ==
  LET passes == IF a.isNot THEN ~condition ELSE condition
  IN  IF ~passes
      THEN IF a.throws
           THEN Raises(AssertionError(matcher))
           ELSE ReturnsValue("false")
      ELSE IF a.throws THEN ReturnsValue("this") ELSE ReturnsValue("true")

\* Matcher calls: the matcher and its arguments (expected: a value or a
\* constructor; n: a count or a position; args: an argument list).
MatcherCall(name, expected, n, args) ==
  [name |-> name, expected |-> expected, n |-> n, args |-> args]

PlainCalls ==
  { MatcherCall("toBeDefined", JsUndefined, 0, <<>>),
    MatcherCall("toBeNull", JsUndefined, 0, <<>>),
    MatcherCall("toBeTruthy", JsUndefined, 0, <<>>),
    MatcherCall("toBe", JsNumber(42), 0, <<>>),
    MatcherCall("toBeGreaterThan", JsNumber(1), 0, <<>>),
    MatcherCall("toBeInstanceOf", JsValue("constructor", 0, "Error"), 0, <<>>),
    MatcherCall("toBeTracked", JsUndefined, 0, <<>>) }

TrackedCalls ==
  { MatcherCall("toHaveBeenCalled", JsUndefined, 0, <<>>),
    MatcherCall("toHaveBeenCalledTimes", JsUndefined, 1, <<>>),
    MatcherCall("toHaveBeenCalledWith", JsUndefined, 0, <<3, 4>>),
    MatcherCall("toHaveBeenLastCalledWith", JsUndefined, 0, <<3, 4>>),
    MatcherCall("toHaveBeenNthCalledWith", JsUndefined, 1, <<1, 2>>),
    MatcherCall("toHaveReturned", JsUndefined, 0, <<>>),
    MatcherCall("toHaveReturnedTimes", JsUndefined, 1, <<>>),
    MatcherCall("toHaveReturnedWith", JsUndefined, 42, <<>>),
    MatcherCall("toHaveLastReturnedWith", JsUndefined, 7, <<>>),
    MatcherCall("toHaveNthReturnedWith", JsUndefined, 1, <<3>>) }

MatcherCalls == PlainCalls \cup TrackedCalls

\* Boolean(value).
Truthy(value) ==
  /\ value.type \notin {"undefined", "null"}
  /\ ~(value.type = "number" /\ value.num = 0)

\* received > expected for a number expected: null counts as 0, undefined
\* and objects as NaN.
GreaterThan(value, expected) ==
  CASE value.type = "number" -> value.num > expected.num
    [] value.type = "null" -> 0 > expected.num
    [] OTHER -> FALSE

\* received.constructor.name.
ConstructorName(value) ==
  CASE value.type = "number" -> "Number"
    [] value.type = "error" -> "Error"
    [] value.type = "promise" -> "Promise"
    [] OTHER -> "Function"

(***************************************************************************)
(* The value comparator.  Diff.ts is not among the sources; equal and diff *)
(* are modelled from section 4.2 of the specification.                     *)
(***************************************************************************)
\* Compared values: numbers, arrays, plain objects (their keys in insertion
\* order, each with its value), and, inside a container, a reference back
\* to a container that holds it.
Composite(type, num, keys, items) ==
  [type |-> type, num |-> num, keys |-> keys, items |-> items]

Num(n) == Composite("number", n, <<>>, <<>>)

Arr(items) == Composite("array", 0, <<>>, items)

Obj(keys, items) == Composite("object", 0, keys, items)

Cycle == Composite("cycle", 0, <<>>, <<>>)

IsContainer(value) == value.type \in {"array", "object"}

\* The scan for circular references: an object reachable from itself.
RECURSIVE isCircular(_)
isCircular(value) ==
  \/ value.type = "cycle"
  \/ /\ IsContainer(value)
     /\ \E k \in DOMAIN value.items : isCircular(value.items[k])

CircularReferenceError ==
  [class |-> "CircularReferenceError", matcher |-> "",
   text |-> "Circular reference detected"]

\* Mutant of structurallyEqual: the numbers of keys are not compared.
RECURSIVE structurallyEqualOverKeys(_, _)
structurallyEqualOverKeys(a, b) ==
  IF a.type # b.type THEN FALSE
  ELSE IF a.type = "array"
       THEN /\ Len(a.items) = Len(b.items)
            /\ \A k \in DOMAIN a.items :
                 structurallyEqualOverKeys(a.items[k], b.items[k])
  ELSE IF a.type = "object"
       THEN \A k \in DOMAIN a.keys :
              \E l \in DOMAIN b.keys :
                /\ b.keys[l] = a.keys[k]
                /\ structurallyEqualOverKeys(a.items[k], b.items[l])
  ELSE a.num = b.num

\* equal(a, b) on values without cycles: a type-tag mismatch is unequal;
\* arrays are equal iff of the same length with every index pairwise equal;
\* plain objects iff they have as many keys and every key's values are
\* pairwise equal, whatever the order of the keys; primitives by identity.
RECURSIVE structurallyEqual(_, _)
structurallyEqual(a, b) ==
  IF a.type # b.type THEN FALSE
  ELSE IF a.type = "array"
       THEN /\ Len(a.items) = Len(b.items)
            /\ \A k \in DOMAIN a.items :
                 structurallyEqual(a.items[k], b.items[k])
  ELSE IF a.type = "object"
       THEN /\ Len(a.keys) = Len(b.keys)
            /\ \A k \in DOMAIN a.keys :
                 \E l \in DOMAIN b.keys :
                   /\ b.keys[l] = a.keys[k]
                   /\ structurallyEqual(a.items[k], b.items[l])
  ELSE a.num = b.num

\* equal(a, b): each side is scanned for cycles first.
equal(a, b) ==
  IF isCircular(a) \/ isCircular(b)
  THEN [raised |-> TRUE, verdict |-> FALSE]
  ELSE [raised |-> FALSE, verdict |-> structurallyEqual(a, b)]

\* One Diff Node: where (the keys and indices from the root), and whether
\* the entry was added, removed or changed.
DiffNode(path, kind) == [path |-> path, kind |-> kind]

AtKey(key) == [key |-> key, index |-> 0]

AtIndex(k) == [key |-> "", index |-> k]

ValueAt(object, key) ==
  object.items[CHOOSE k \in DOMAIN object.keys : object.keys[k] = key]

\* The structural diffs of two values without cycles: one node when the
\* types differ or two primitives differ; per index for arrays and per key
\* for objects, an entry of one side only being removed or added and an
\* entry of both sides being diffed in turn.
RECURSIVE structuralDiffs(_, _, _)
structuralDiffs(a, b, path) ==
  IF a.type # b.type THEN {DiffNode(path, "changed")}
  ELSE IF a.type = "array"
       THEN UNION
              { IF k > Len(b.items) THEN {DiffNode(Append(path, AtIndex(k)), "removed")}
                ELSE IF k > Len(a.items)
                     THEN {DiffNode(Append(path, AtIndex(k)), "added")}
                ELSE structuralDiffs(a.items[k], b.items[k],
                                     Append(path, AtIndex(k))) :
                  k \in DOMAIN a.items \cup DOMAIN b.items }
  ELSE IF a.type = "object"
       THEN UNION
              { IF key \notin Range(b.keys)
                THEN {DiffNode(Append(path, AtKey(key)), "removed")}
                ELSE IF key \notin Range(a.keys)
                     THEN {DiffNode(Append(path, AtKey(key)), "added")}
                ELSE structuralDiffs(ValueAt(a, key), ValueAt(b, key),
                                     Append(path, AtKey(key))) :
                  key \in Range(a.keys) \cup Range(b.keys) }
  ELSE IF a.num # b.num THEN {DiffNode(path, "changed")} ELSE {}

\* diff(a, b): each side is scanned for cycles first.
diff(a, b) ==
  IF isCircular(a) \/ isCircular(b)
  THEN [raised |-> TRUE, hasDiffs |-> FALSE, diffs |-> {}]
  ELSE LET nodes == structuralDiffs(a, b, <<>>)
       IN  [raised |-> FALSE, hasDiffs |-> nodes # {}, diffs |-> nodes]

\* Object.is(a, b) of a received and an expected value: the same primitive;
\* two containers are two objects.
Is(a, b) == a = b /\ ~IsContainer(a) /\ a.type # "cycle"

\* Mutant of toBe: the message is not made of the diff.
toBeWithoutDiff(a, expected) == assert(a, Is(a.received, expected), "toBe")

\* toBe(expected): the message, diff(received, expected).diffFormatted, is
\* computed before assert is called.
toBe(a, expected) ==
  IF diff(a.received, expected).raised
  THEN Raises(CircularReferenceError)
  ELSE assert(a, Is(a.received, expected), "toBe")

\* Mutant of toEqual: the values are compared as toBe compares them.
toEqualByIdentity(a, expected) ==
  LET diffs == diff(a.received, expected)
  IN  IF diffs.raised
      THEN Raises(CircularReferenceError)
      ELSE assert(a, Is(a.received, expected), "toEqual")

\* toEqual(expected): diffs.hasDiffs === false.
toEqual(a, expected) ==
  LET diffs == diff(a.received, expected)
  IN  IF diffs.raised
      THEN Raises(CircularReferenceError)
      ELSE assert(a, diffs.hasDiffs = FALSE, "toEqual")

\* diff(a, b).hasDiffs of Diff.ts on two numbers: they are not the same.
hasDiffs(a, b) == a # b

\* The matchers that need no tracked value.
PlainMatcher(a, call) ==
  CASE call.name = "toBeDefined" ->
         assert(a, a.received.type # "undefined", "toBeDefined")
    [] call.name = "toBeNull" ->
         assert(a, a.received.type = "null", "toBeNull")
    [] call.name = "toBeTruthy" ->
         assert(a, Truthy(a.received), "toBeTruthy")
    [] call.name = "toBe" -> toBe(a, call.expected)
    [] call.name = "toEqual" -> toEqual(a, call.expected)
    [] call.name = "toBeGreaterThan" ->
         assert(a, GreaterThan(a.received, call.expected), "toBeGreaterThan")
    [] call.name = "toBeInstanceOf" ->
         IF a.received.type \in {"undefined", "null"}
         THEN Raises(TypeErrorOf("toBeInstanceOf"))
         ELSE assert(a, ConstructorName(a.received) = call.expected.text,
                     "toBeInstanceOf")
    [] call.name = "toBeTracked" ->
         assert(a, a.isTracked, "toBeTracked")

\* The evaluation of a matcher of the tracker's query surface reads `args`
\* of undefined: there is no latest call, or no call at the position.
TrackedReadsUndefined(call, f) ==
  \/ call.name = "toHaveBeenLastCalledWith" /\ f.calls = <<>>
  \/ call.name = "toHaveBeenNthCalledWith" /\ call.n > Len(f.calls)

\* The condition of a matcher of the tracker's query surface, on the
\* tracked function f.
TrackedCondition(call, f) ==
  LET returnValues == getReturnValues(f)
      n == call.n
  IN  CASE call.name = "toHaveBeenCalled" -> wasCalled(f)
        [] call.name = "toHaveBeenCalledTimes" -> wasCalledTimes(f, n)
        [] call.name = "toHaveBeenCalledWith" -> wasCalledWith(f, call.args)
        [] call.name = "toHaveBeenLastCalledWith" ->
             ~hasDiffs(f.calls[Len(f.calls)].args, call.args)
        [] call.name = "toHaveBeenNthCalledWith" ->
             ~hasDiffs(f.calls[n].args, call.args)
        [] call.name = "toHaveReturned" -> Len(returnValues) > 0
        [] call.name = "toHaveReturnedTimes" -> Len(returnValues) = n
        [] call.name = "toHaveReturnedWith" ->
             \E k \in DOMAIN returnValues : hasDiffs(returnValues[k], n)
        [] call.name = "toHaveLastReturnedWith" ->
             /\ Len(returnValues) > 0
             /\ ~hasDiffs(returnValues[Len(returnValues)], n)
        [] call.name = "toHaveNthReturnedWith" ->
             /\ Len(returnValues) >= n
             /\ ~hasDiffs(returnValues[n], call.args[1])

\* Mutant of TrackedMatcher: an untracked value is a mismatch.
TrackedMatcherMismatching(a, call, f) ==
  IF ~a.isTracked
  THEN assert(a, FALSE, call.name)
  ELSE IF a.received.type # "tracked" \/ TrackedReadsUndefined(call, f)
       THEN Raises(TypeErrorOf(call.name))
       ELSE assert(a, TrackedCondition(call, f), call.name)

\* The matchers of the tracker's query surface: `if (!this.isTracked)
\* throw new Error(...)`, then the query of this.received.
TrackedMatcher(a, call, f) ==
  IF ~a.isTracked
  THEN Raises(UsageError(call.name))
  ELSE IF a.received.type # "tracked" \/ TrackedReadsUndefined(call, f)
       THEN Raises(TypeErrorOf(call.name))
       ELSE assert(a, TrackedCondition(call, f), call.name)

\* target[prop](...args).
Matcher(a, call, f) ==
  IF call \in TrackedCalls THEN TrackedMatcher(a, call, f) ELSE PlainMatcher(a, call)

\* A matcher called on the Assertion, or on its resolves or rejects proxy:
\* the Assertion afterwards, how the awaited value settled, and the outcome
\* (of the call, or of the promise the proxy's function returns).
Called(a, settled, outcome) == [assertion |-> a, settled |-> settled, outcome |-> outcome]

CallDirect(a, call, f) == Called(a, "", Matcher(a, call, f))

CallResolves(a, call, f) ==
  LET awaited == Awaited(a.received)
      target == [a EXCEPT !.received = awaited.value]
      outcome == Matcher(target, call, f)
  IN  IF awaited.how = "rejected"
      THEN Called(a, "rejected", Raises(ResolveRejectedError))
      ELSE Called(target, "fulfilled",
                  IF outcome.kind = "raised"
                  THEN Raises(ResolveRejectedError)
                  ELSE outcome)

CallRejects(a, call, f) ==
  LET awaited == Awaited(a.received)
      err == IF awaited.how = "rejected"
             THEN awaited.value
             ELSE JsError(RejectResolvedMessage)
      target == [a EXCEPT !.received = err]
  IN  Called(target, awaited.how, Matcher(target, call, f))

\* `not` is read, on the Assertion or through a proxy: isNot is toggled and
\* the Assertion itself is what the getter returns.
AccessNot ==
  /\ assertion # NoAssertion
  /\ nots < MaxNots
  /\ assertion' = [assertion EXCEPT !.isNot = ~@]
  /\ chain' = "target"
  /\ nots' = nots + 1
  /\ UNCHANGED <<runVars, projection, trackFn, last>>

\* `resolves` or `rejects` is read on the Assertion: a proxy of it.
AccessProxy ==
  /\ assertion # NoAssertion
  /\ chain = "target"
  /\ chain' \in {"resolves", "rejects"}
  /\ projection' = chain'
  /\ UNCHANGED <<runVars, assertion, nots, trackFn, last>>

\* A matcher is called on what the expression holds.
CallAmong(calls) ==
  /\ assertion # NoAssertion
  /\ \E call \in calls :
       LET called == CASE chain = "resolves" -> CallResolves(assertion, call, trackFn)
                       [] chain = "rejects" -> CallRejects(assertion, call, trackFn)
                       [] OTHER -> CallDirect(assertion, call, trackFn)
       IN  /\ assertion' = called.assertion
           /\ last' = [op |-> "call", call |-> call, via |-> chain,
                       nots |-> nots, negated |-> assertion.isNot,
                       before |-> assertion.received,
                       settled |-> called.settled,
                       outcome |-> called.outcome]
  /\ chain' = "target"
  /\ nots' = 0
  /\ projection' = ""
  /\ UNCHANGED <<runVars, trackFn>>

CallMatcher == CallAmong(MatcherCalls)

NextAssert == AccessNot \/ AccessProxy \/ CallMatcher

\* The values compared: numbers and the empty array, wrapped up to
\* MaxNesting times in an array or in an object of two keys in either
\* order; the values of the documented scenarios; and circular values.
Wrapped(value) ==
  { Arr(<<value>>),
    Obj(<<"a", "b">>, <<value, Num(1)>>),
    Obj(<<"b", "a">>, <<Num(1), value>>) }

RECURSIVE Nested(_)
Nested(depth) ==
  IF depth = 0
  THEN {Num(1), Num(2), Arr(<<>>)}
  ELSE Nested(depth - 1) \cup UNION {Wrapped(value) : value \in Nested(depth - 1)}

Scenarios ==
  { Obj(<<"a", "b">>, <<Num(1), Obj(<<"c">>, <<Num(2)>>)>>),
    Obj(<<"b", "a">>, <<Obj(<<"c">>, <<Num(2)>>), Num(1)>>),
    Obj(<<"a">>, <<Num(1)>>),
    Obj(<<"a">>, <<Num(2)>>),
    Obj(<<"c">>, <<Num(2)>>) }

Circulars ==
  { Arr(<<Cycle>>),
    Obj(<<"a", "b">>, <<Num(1), Arr(<<Cycle>>)>>) }

Comparables == Nested(MaxNesting) \cup Scenarios \cup Circulars

CompareCalls ==
  { MatcherCall(name, expected, 0, <<>>) :
      name \in {"toBe", "toEqual"}, expected \in Comparables }

\* equal and diff are applied to the received value and another one.  The
\* Assertion was constructed for this one comparison: neither equal, diff,
\* toBe nor toEqual changes it, so a second comparison on it would start
\* from the same Assertion.
Compare ==
  /\ assertion # NoAssertion
  /\ last.op = "none"
  /\ \E b \in Comparables :
       last' = [op |-> "compare", a |-> assertion.received, b |-> b,
                equal |-> equal(assertion.received, b),
                diff |-> diff(assertion.received, b)]
  /\ UNCHANGED <<runVars, assertion, chain, nots, projection, trackFn>>

\* toBe or toEqual is called with an expected value.
CallComparison == last.op = "none" /\ CallAmong(CompareCalls)

NextCompare == Compare \/ CallComparison

(***************************************************************************)
(* Initial states: a Run object constructed over a registered TestCase,    *)
(* run() not yet called.                                                   *)
(***************************************************************************)
NoHooks == [p \in Phases |-> <<>>]

\* Tests registered in order, described by their position.
Registered(name, kinds) ==
  [k \in DOMAIN kinds |-> Executable(<<name, k>>, kinds[k].fn, kinds[k].options)]

Kind(fn, options) == [fn |-> fn, options |-> options]

SeqsUpTo(S, n) == UNION {[1..m -> S] : m \in 0..n}

NoOperation ==
  [op |-> "none", prev |-> "none", args |-> <<>>, before |-> <<>>,
   invoked |-> <<>>]

InitAssertionIdle ==
  /\ assertion = NoAssertion
  /\ chain = "target"
  /\ nots = 0
  /\ projection = ""
  /\ last = NoOperation

InitOver(c, tc) ==
  /\ InitAssertionIdle
  /\ trackFn = Fn("add")
  /\ cpuCount = c
  /\ maxParallelTests = MAX_PARALLEL_TESTS(c)
  /\ testCase = tc
  /\ pc = "init"
  /\ i = 0
  /\ report = EmptyReport
  /\ main = <<>>
  /\ tasks = [t \in 1..Len(IF Len(tc.onlyTests) > 0 THEN tc.onlyTests ELSE tc.tests)
                |-> PendingTask]
  /\ batches = <<>>
  /\ abandoned = [key \in {"test", "hook"} \X {"slow", "hang"} |-> 0]

\* The suites of the scheduler's specification.  Up to MaxTests tests of a
\* few kinds: passing, failing, soft-failing, skipped, timing out with a body
\* that settles later, and gated by a predicate that throws.
RunTestKinds ==
  { Kind("pass", DefaultOptions),
    Kind("throwError", DefaultOptions),
    Kind("throwError", [DefaultOptions EXCEPT !.softFail = TRUE]),
    Kind("pass", [DefaultOptions EXCEPT !.skip = TRUE]),
    Kind("slow", [DefaultOptions EXCEPT !.timeout = 50]),
    Kind("pass", [DefaultOptions EXCEPT !.if = "fnThrows"]) }

\* Without exclusive tests, or with one passing exclusive test beside
\* failing ordinary tests.
RunTests ==
  { [tests |-> Registered("test", ts), onlyTests |-> <<>>] :
      ts \in SeqsUpTo(RunTestKinds, MaxTests) }
  \cup
  { [tests |-> Registered("test", ts),
     onlyTests |-> Registered("only", <<Kind("pass", DefaultOptions)>>)] :
      ts \in SeqsUpTo({Kind("throwError", DefaultOptions)}, MaxTests) }

\* Any subset of the four hooks when they pass; all four when they fail,
\* soft-fail or are skipped.
RunHookKinds ==
  { Kind("throwError", DefaultOptions),
    Kind("throwError", [DefaultOptions EXCEPT !.softFail = TRUE]),
    Kind("pass", [DefaultOptions EXCEPT !.skip = TRUE]) }

HooksOf(present, h) ==
  [p \in Phases |->
     IF p \in present THEN <<Executable(<<p, 0>>, h.fn, h.options)>> ELSE <<>>]

RunHooks ==
  { HooksOf(present, Kind("pass", DefaultOptions)) : present \in SUBSET Phases }
  \cup { HooksOf(Phases, h) : h \in RunHookKinds }

\* The numbers of execution units of the scheduler's specification.
RunCpus == {1, 2}

Init ==
  \E c \in RunCpus, r \in RunTests, hs \in RunHooks :
    InitOver(c, [tests |-> r.tests, onlyTests |-> r.onlyTests, hooks |-> hs])

Spec == Init /\ [][Next]_vars

\* One executable of any kind and any options, registered as the only test
\* or as the beforeAll hook of a suite without tests.
InitExecute ==
  \E fn \in BodyKinds, o \in Options, asTest \in BOOLEAN :
    InitOver(1,
             IF asTest
             THEN [tests |-> Registered("test", <<Kind(fn, o)>>),
                   onlyTests |-> <<>>,
                   hooks |-> NoHooks]
             ELSE [tests |-> <<>>,
                   onlyTests |-> <<>>,
                   hooks |-> [NoHooks EXCEPT
                                !["beforeAll"] =
                                   <<Executable(<<"beforeAll", 0>>, fn, o)>>]])

SpecExecute == InitExecute /\ [][Next]_vars

\* Suites of passing tests without hooks, for every number of execution
\* units: the batching alone.
InitBatch ==
  \E c \in 0..MaxBatchCpus, n \in 0..MaxBatchTests :
    InitOver(c, [tests |-> Registered("test",
                                      [k \in 1..n |-> Kind("pass", DefaultOptions)]),
                 onlyTests |-> <<>>,
                 hooks |-> NoHooks])

NextBatch ==
  \/ RunStart
  \/ \E s \in Slots : GateResume(s)
  \/ \E s \in Slots : AttemptSettle(s)
  \/ \E t \in DOMAIN tasks : TaskContinue(t)
  \/ BatchSettled

SpecBatch == InitBatch /\ [][NextBatch]_vars

\* No suite is run: the Run object stays as constructed over an empty one.
InitRunIdle ==
  /\ cpuCount = 1
  /\ maxParallelTests = MAX_PARALLEL_TESTS(1)
  /\ testCase = [tests |-> <<>>, onlyTests |-> <<>>, hooks |-> NoHooks]
  /\ pc = "init"
  /\ i = 0
  /\ report = EmptyReport
  /\ main = <<>>
  /\ tasks = <<>>
  /\ batches = <<>>
  /\ abandoned = [key \in {"test", "hook"} \X {"slow", "hang"} |-> 0]

\* A tracked function of each wrapped implementation, operated on by a test
\* body.
InitFn ==
  /\ InitRunIdle
  /\ InitAssertionIdle
  /\ \E original \in Originals : trackFn = Fn(original)

SpecFn == InitFn /\ [][NextFn]_vars

\* assert(received) or is(received), for a received value of each kind;
\* the tracked function was never called, or called as f(1, 2) and f(3, 4),
\* or it returns 42 and was called once.
Receivables ==
  {JsUndefined, JsNull, JsNumber(0), JsNumber(42), JsError("boom"), JsFunction,
   JsPromise("fulfilled", JsNumber(42)), JsPromise("fulfilled", JsNull),
   JsPromise("rejected", JsError("boom")), JsPromise("rejected", JsNull)}

TrackedFunctions ==
  {Fn("add"),
   Invoked(Invoked(Fn("add"), <<1, 2>>), <<3, 4>>),
   Invoked(Fn("constant"), <<1, 2>>),
   Invoked(Fn("throwing"), <<1, 2>>)}

InitAssert ==
  /\ InitRunIdle
  /\ chain = "target"
  /\ nots = 0
  /\ projection = ""
  /\ last = NoOperation
  /\ \E throws \in BOOLEAN :
       \/ /\ trackFn = Fn("add")
          /\ \E received \in Receivables :
               assertion = NewAssertion(received, throws)
       \/ /\ trackFn \in TrackedFunctions
          /\ assertion = NewAssertion(JsTracked, throws)

SpecAssert == InitAssert /\ [][NextAssert]_vars

\* An Assertion over each compared value, in either mode.
InitCompare ==
  /\ InitRunIdle
  /\ chain = "target"
  /\ nots = 0
  /\ projection = ""
  /\ last = NoOperation
  /\ trackFn = Fn("add")
  /\ \E throws \in BOOLEAN, received \in Comparables :
       assertion = NewAssertion(received, throws)

SpecCompare == InitCompare /\ [][NextCompare]_vars

(***************************************************************************)
(* Properties.                                                             *)
(***************************************************************************)
\* The execute() calls in flight or just settled.
Frames == {FrameAt(s) : s \in {x \in Slots : HasFrame(x)}}

\* Those of them that execute a test.
TestFrames ==
  {FrameAt(s) : s \in {x \in Slots : HasFrame(x) /\ RoleAt(x) = "test"}}

Finished(f) == f.phase \in {"returned", "threw"}

Count(results, status) ==
  Cardinality({k \in DOMAIN results : results[k].status = status})

\* C1: when run() has completed, report.status is "failed" if and only if
\* some entry of report.tests has status "failed"; soft-fail and skipped
\* results and hook results of any status never make it "failed".
C1_StatusFailedIffTestFailed ==
  pc = "done" =>
    (report.status = "failed" <=> Count(report.tests, "failed") > 0)

C1_Witness ==
  /\ pc = "done"
  /\ report.status = "passed"
  /\ Count(report.hooks, "failed") > 0
  /\ Count(report.tests, "soft-fail") > 0

\* C2: an execution with retry = N invokes the body at most N+1 times; when
\* it ends passed, the successful invocation was the last one made (k), and
\* the result has retries = k-1 and no error.
C2_RetryBound ==
  \A f \in Frames :
    /\ f.calls <= f.exe.options.retry + 1
    /\ (f.phase = "returned" /\ f.result.status = "passed") =>
         /\ f.calls >= 1
         /\ f.result.retries = f.calls - 1
         /\ f.result.error = <<>>

C2_Witness ==
  \E f \in Frames :
    /\ f.exe.options.retry = 2
    /\ f.phase = "returned"
    /\ f.result.status = "passed"
    /\ f.calls = 3
    /\ f.result.retries = 2

\* C3: with softFail set, an execution all of whose retry+1 attempts failed
\* ends with a result of status "soft-fail", and the run of that one test
\* counts it in stats.softFailed, not in stats.failed, and leaves
\* report.status "passed".
AllAttemptsFailed(f) ==
  /\ Finished(f)
  /\ f.calls = f.exe.options.retry + 1
  /\ f.result.retries = f.calls

C3_SoftFailReported ==
  /\ \A f \in TestFrames :
       (f.exe.options.softFail /\ AllAttemptsFailed(f)) =>
         (f.phase = "returned" /\ f.result.status = "soft-fail")
  /\ (pc = "done" /\ Len(report.tests) = 1
        /\ TestsToRun[1].options.softFail
        /\ report.tests[1].retries = TestsToRun[1].options.retry + 1) =>
       /\ report.tests[1].status = "soft-fail"
       /\ report.stats.softFailed = 1
       /\ report.stats.failed = 0
       /\ report.status = "passed"

\* C4: with skip set, the result has status "skipped" and retries 0 and the
\* body is never invoked, whatever the `if` option is.
C4_SkipForcesSkipped ==
  \A f \in Frames :
    f.exe.options.skip =>
      /\ f.calls = 0
      /\ f.phase = "returned"
      /\ f.result.status = "skipped"
      /\ f.result.retries = 0

C4_Witness ==
  \E f \in Frames :
    /\ f.exe.options.skip
    /\ f.exe.options.if = "fnThrows"
    /\ f.result.status = "skipped"
    /\ f.calls = 0

\* C5 as stated: with skip false, an execution is skipped, with no
\* invocation of the body, exactly when `if` is false, null or undefined or
\* a predicate whose result is false, null or undefined; in every other case
\* the body is invoked at least once.
SkipConditions == {"false", "null", "undefined", "fnFalse", "fnNull", "fnUndefined"}

C5_SkippedExactlyWhenFalsy ==
  \A f \in Frames :
    ~f.exe.options.skip =>
      /\ f.exe.options.if \in SkipConditions =>
           (f.calls = 0 /\ (Finished(f) => f.result.status = "skipped"))
      /\ (f.exe.options.if \notin SkipConditions /\ Finished(f)) =>
           (f.calls >= 1 /\ f.result.status # "skipped")

\* C5, amended: with skip false, an execution is skipped, with no invocation
\* of the body, exactly when `if` is false, null or undefined or a predicate
\* whose result is false, null or undefined; when `if` is true or a predicate
\* whose result is true the body is invoked at least once; when the
\* predicate throws the execution is not skipped and the body is not invoked:
\* execute() fails.
C5_SkippedExactlyWhenFalsyUnlessThrown ==
  \A f \in Frames :
    ~f.exe.options.skip =>
      /\ f.exe.options.if \in SkipConditions =>
           (f.calls = 0 /\ (Finished(f) => f.result.status = "skipped"))
      /\ (f.exe.options.if \in {"true", "fnTrue"} /\ Finished(f)) =>
           (f.calls >= 1 /\ f.result.status # "skipped")
      /\ f.exe.options.if = "fnThrows" =>
           /\ f.calls = 0
           /\ f.result.status # "skipped"
           /\ Finished(f) => f.phase = "threw"

C5_Witness ==
  \E f \in Frames :
    /\ ~f.exe.options.skip
    /\ f.exe.options.if = "fnUndefined"
    /\ f.phase = "returned"
    /\ f.result.status = "skipped"
    /\ f.calls = 0

\* C6: for an execution with timeout T > 0 whose body never settles, every
\* attempt ends as a failure with the message "<description> exceeded <T>
\* ms."; the timeouts are counted by the retry loop like thrown errors, so
\* the result comes after retry+1 attempts and is "failed", or "soft-fail"
\* with softFail; no result has another status for a timeout.
ExceededMessage(f) ==
  [soft |-> FALSE, text |-> "exceeded ms.", who |-> f.exe.description,
   num |-> f.exe.options.timeout]

C6_TimeoutIsAFailedAttempt ==
  \A f \in Frames :
    /\ f.result.status \in {"passed", "failed", "skipped", "soft-fail"}
    /\ (f.exe.fn = "hang" /\ f.exe.options.timeout > 0) =>
         /\ f.result.retries = IF f.phase = "running" THEN f.calls - 1 ELSE f.calls
         /\ f.result.retries > 0 =>
              /\ f.lastError # <<>>
              /\ f.lastError[1].kind = "Error"
              /\ f.lastError[1].message = ExceededMessage(f)
         /\ (Finished(f) /\ f.calls > 0) =>
              /\ f.phase = "returned"
              /\ f.calls = f.exe.options.retry + 1
              /\ f.result.status =
                   IF f.exe.options.softFail THEN "soft-fail" ELSE "failed"
              /\ f.result.error # <<>>
              /\ f.result.error[1].message =
                   [ExceededMessage(f) EXCEPT !.soft = f.exe.options.softFail]

C6_Witness ==
  \E f \in Frames :
    /\ f.exe.fn = "hang"
    /\ f.exe.options.timeout = 50
    /\ f.exe.options.retry = 2
    /\ f.phase = "returned"
    /\ f.result.status = "failed"
    /\ f.result.retries = 3

\* C7: batches run strictly in sequence: once a batch has been started, the
\* callback of every test of every earlier batch has returned, its
\* beforeEach, attempt loop and afterEach all being over; and nothing of a
\* test runs before its batch is started.
InFlight(task) == task.stage \in {"beforeEach", "test", "afterEach"}

BatchCount(n, width) == (n + width - 1) \div width

C8_BatchOfIndex ==
  LET n == Len(TestsToRun)
      width == maxParallelTests
  IN  /\ Len(batches) <= BatchCount(n, width)
      /\ pc = "done" => Len(batches) = BatchCount(n, width)
      /\ \A k \in DOMAIN batches :
           /\ Range(batches[k]) = {t \in 1..n : (t - 1) \div width = k - 1}
           /\ \A j \in DOMAIN batches[k] : batches[k][j] = (k - 1) * width + j
           /\ k < BatchCount(n, width) => Len(batches[k]) = width
           /\ Len(batches[k]) \in 1..width

C8_Witness ==
  /\ pc = "done"
  /\ Len(TestsToRun) = 5
  /\ maxParallelTests = 2
  /\ [k \in DOMAIN batches |-> Len(batches[k])] = <<2, 2, 1>>

\* C9 as stated: at every moment the test bodies started and not settled,
\* those of attempts abandoned after a timeout included, are at most as many
\* as the batch width.
RunningTestBodies ==
  Cardinality({t \in DOMAIN tasks :
                 tasks[t].stage = "test" /\ tasks[t].cur[1].phase = "running"})

AbandonedTestBodies ==
  abandoned[<<"test", "slow">>] + abandoned[<<"test", "hang">>]

C9_UnsettledBodiesBounded ==
  RunningTestBodies + AbandonedTestBodies <= maxParallelTests

\* C9, amended: at every moment the tests whose callback is in flight, and
\* so the test bodies started whose attempt is still awaited, are at most as
\* many as the batch width; the bodies of attempts abandoned after a timeout
\* run on beside them and are not bounded by the width.
C9_AwaitedBodiesBounded ==
  /\ Cardinality({t \in DOMAIN tasks : InFlight(tasks[t])}) <= maxParallelTests
  /\ RunningTestBodies <= maxParallelTests

C9_Witness ==
  /\ RunningTestBodies = maxParallelTests
  /\ AbandonedTestBodies > 0

\* C10 as stated: the batch width is max(c, 4) for c execution units.
C10_WidthAtLeastFour ==
  pc # "init" =>
    /\ maxParallelTests = (IF cpuCount > 4 THEN cpuCount ELSE 4)
    /\ maxParallelTests >= 4

\* C10, amended: the batch width is the number c of execution units when
\* c >= 1, and 4 when c = 0: it is never less than 1, and it is less than 4
\* for c = 1, 2, 3; every batch but the last has that many tests.
C10_WidthIsCpusOrFour ==
  LET width == IF cpuCount = 0 THEN 4 ELSE cpuCount
  IN  /\ maxParallelTests = width
      /\ maxParallelTests >= 1
      /\ \A k \in DOMAIN batches :
           Len(batches[k]) = Min(width, Len(TestsToRun) - (k - 1) * width)

C10_Witness ==
  /\ cpuCount = 1
  /\ maxParallelTests = 1
  /\ Len(batches) = 2
  /\ Len(batches[1]) = 1

\* C11: a registered beforeAll is executed once, by run() itself and before
\* anything else: while it runs no batch has been started and nothing is
\* recorded; once it has returned its result is the first entry of
\* report.hooks and the only one of beforeAll, and whatever the status of
\* that result the batches are started, so that a run that completes has
\* executed and reported every selected test.
EntriesOf(results, description) ==
  {k \in DOMAIN results : results[k].description = description}

Executing(description) ==
  {s \in Slots : HasFrame(s) /\ FrameAt(s).exe.description = description}

C11_BeforeAllOnceAndFirst ==
  HasHook("beforeAll") =>
    /\ Executing(<<"beforeAll", 0>>) \subseteq {0}
    /\ Executing(<<"beforeAll", 0>>) # {} =>
         /\ pc = "beforeAll"
         /\ report.hooks = <<>> /\ report.tests = <<>>
         /\ batches = <<>>
         /\ \A t \in DOMAIN tasks : tasks[t].stage = "pending"
    /\ (\E t \in DOMAIN tasks : tasks[t].stage # "pending") =>
         EntriesOf(report.hooks, <<"beforeAll", 0>>) = {1}
    /\ report.hooks # <<>> =>
         /\ EntriesOf(report.hooks, <<"beforeAll", 0>>) = {1}
         /\ Len(TestsToRun) > 0 => batches # <<>>
    /\ pc = "done" =>
         /\ EntriesOf(report.hooks, <<"beforeAll", 0>>) = {1}
         /\ \A t \in DOMAIN TestsToRun :
              Cardinality(EntriesOf(report.tests, TestsToRun[t].description)) = 1

C11_Witness ==
  /\ pc = "done"
  /\ report.hooks # <<>>
  /\ report.hooks[1].description = <<"beforeAll", 0>>
  /\ report.hooks[1].status = "failed"
  /\ Len(report.tests) = 2
  /\ Count(report.tests, "passed") > 0

\* C12: a registered afterAll is executed once, by run() itself, and only
\* when every test of every batch has been reported and every callback has
\* returned; when run() has completed its result is the last entry of
\* report.hooks and the only one of afterAll, whether or not tests failed.
C12_AfterAllOnceAndLast ==
  HasHook("afterAll") =>
    /\ Executing(<<"afterAll", 0>>) \subseteq {0}
    /\ Executing(<<"afterAll", 0>>) # {} =>
         /\ pc = "afterAll"
         /\ \A t \in DOMAIN tasks : tasks[t].stage = "done" /\ tasks[t].cur = <<>>
         /\ Len(report.tests) = Len(TestsToRun)
         /\ EntriesOf(report.hooks, <<"afterAll", 0>>) = {}
    /\ pc # "done" => EntriesOf(report.hooks, <<"afterAll", 0>>) = {}
    /\ pc = "done" =>
         EntriesOf(report.hooks, <<"afterAll", 0>>) = {Len(report.hooks)}

C12_Witness ==
  /\ pc = "done"
  /\ report.status = "failed"
  /\ Len(report.hooks) >= 3
  /\ report.hooks[Len(report.hooks)].description = <<"afterAll", 0>>

\* C13: in the callback of every selected test a registered beforeEach has
\* been executed and its result recorded before execute() of the test
\* begins, and a registered afterEach is executed only when the result of
\* the test is final and reported, after every outcome of the test: each
\* callback that came past its test has left one beforeEach result, each
\* callback that returned has left one afterEach result.
TasksIn(stages) == {t \in DOMAIN tasks : tasks[t].stage \in stages}

C13_EachHooksAroundTest ==
  /\ \A t \in DOMAIN tasks :
       /\ tasks[t].stage = "beforeEach" =>
            /\ HasHook("beforeEach")
            /\ tasks[t].cur[1].exe.description = <<"beforeEach", 0>>
            /\ EntriesOf(report.tests, TestsToRun[t].description) = {}
       /\ tasks[t].stage = "test" =>
            /\ tasks[t].cur[1].exe = TestsToRun[t]
            /\ EntriesOf(report.tests, TestsToRun[t].description) = {}
       /\ tasks[t].stage = "afterEach" =>
            /\ HasHook("afterEach")
            /\ tasks[t].cur[1].exe.description = <<"afterEach", 0>>
            /\ tasks[t].result # <<>>
            /\ tasks[t].result[1].status \in
                 {"passed", "failed", "skipped", "soft-fail"}
            /\ \E k \in EntriesOf(report.tests, TestsToRun[t].description) :
                 report.tests[k] = tasks[t].result[1]
  /\ HasHook("beforeEach") =>
       /\ Cardinality(EntriesOf(report.hooks, <<"beforeEach", 0>>))
            >= Cardinality(TasksIn({"test", "afterEach", "done"}))
       /\ Cardinality(EntriesOf(report.hooks, <<"beforeEach", 0>>))
            <= Cardinality(TasksIn({"test", "afterEach", "done", "rejected"}))
  /\ HasHook("afterEach") =>
       /\ Cardinality(EntriesOf(report.hooks, <<"afterEach", 0>>))
            = Cardinality(TasksIn({"done"}))
       /\ Cardinality(EntriesOf(report.hooks, <<"afterEach", 0>>))
            <= Len(report.tests)
       /\ pc = "done" =>
            Cardinality(EntriesOf(report.hooks, <<"afterEach", 0>>))
              = Len(TestsToRun)

C13_Witness ==
  /\ HasHook("beforeEach")
  /\ \E t \in DOMAIN tasks :
       /\ tasks[t].stage = "afterEach"
       /\ tasks[t].result[1].status = "failed"
       /\ tasks[t].cur[1].phase = "running"

\* C14: once the batch loop is entered stats.total is the number of selected
\* tests; each counter counts results of its own status only, and when a
\* batch is running the four counters add up to the number of tests of the
\* batches before it; so their sum never exceeds the number of results in
\* report.tests, and when the loop is over each counter is the number of
\* results of its status and their sum is stats.total and Len(report.tests).
Counted ==
  report.stats.passed + report.stats.failed + report.stats.skipped
    + report.stats.softFailed

C14_CountersPartitionTotal ==
  /\ (batches # <<>> \/ pc \in {"afterAll", "done"}) =>
       report.stats.total = Cardinality(DOMAIN tasks)
  /\ report.stats.passed <= Count(report.tests, "passed")
  /\ report.stats.failed <= Count(report.tests, "failed")
  /\ report.stats.skipped <= Count(report.tests, "skipped")
  /\ report.stats.softFailed <= Count(report.tests, "soft-fail")
  /\ Counted <= Len(report.tests)
  /\ pc = "batch" => Counted = i
  /\ pc \in {"afterAll", "done"} =>
       /\ report.stats.passed = Count(report.tests, "passed")
       /\ report.stats.failed = Count(report.tests, "failed")
       /\ report.stats.skipped = Count(report.tests, "skipped")
       /\ report.stats.softFailed = Count(report.tests, "soft-fail")
       /\ Counted = report.stats.total
       /\ Counted = Len(report.tests)

C14_Witness ==
  /\ pc = "done"
  /\ report.stats.total = 2
  /\ report.stats.skipped = 1
  /\ report.stats.softFailed = 1

\* C15: when there are exclusive tests, only they are executed and reported
\* and stats.total is their number: no registered non-exclusive test is
\* ever handed to execute() or found in report.tests; when there is none,
\* the registered tests are the ones executed, and all of them are reported
\* by a run that completes.
Descriptions(executables) ==
  {executables[k].description : k \in DOMAIN executables}

ExecutedTests ==
  {tasks[t].cur[1].exe : t \in {u \in DOMAIN tasks : tasks[u].stage = "test"}}

C15_Selected(selected) ==
  /\ ExecutedTests \subseteq Range(selected)
  /\ Descriptions(report.tests) \subseteq Descriptions(selected)
  /\ report.stats.total \in {0, Len(selected)}
  /\ pc = "done" =>
       /\ report.stats.total = Len(selected)
       /\ Len(report.tests) = Len(selected)
       /\ Descriptions(report.tests) = Descriptions(selected)

C15_OnlyTestsExclusive ==
  IF Len(testCase.onlyTests) > 0
  THEN C15_Selected(testCase.onlyTests)
  ELSE C15_Selected(testCase.tests)

C15_Witness ==
  /\ Len(testCase.onlyTests) > 0
  /\ Len(testCase.tests) > 0
  /\ pc = "done"
  /\ report.stats.total = Len(testCase.onlyTests)
  /\ Descriptions(report.tests) = Descriptions(testCase.onlyTests)

\* C16: whatever the body of a test throws, and when it times out, the
\* fault ends an attempt and execute() returns a result: execute() of a
\* test throws only when the predicate did, before any invocation of the
\* body, and run() fails only through a test of which the predicate throws.
C16_BodyFaultsContained ==
  /\ \A f \in TestFrames : f.phase = "threw" => f.calls = 0
  /\ \A t \in DOMAIN tasks :
       tasks[t].stage = "rejected" => TestsToRun[t].options.if = "fnThrows"

\* C17: when the predicate of a test throws, execute() of that test throws
\* what the predicate threw, without invoking the body and without a
\* result; the callback of the test rejects and run() with it: nothing is
\* reported for the test, and a run with such a test among the selected ones
\* executes no afterAll and returns no report.
PredicateThrows(executable) ==
  executable.options.if = "fnThrows" /\ ~executable.options.skip

C17_PredicateFaultFailsRun ==
  /\ \A f \in TestFrames :
       (PredicateThrows(f.exe) /\ Finished(f)) =>
         /\ f.phase = "threw"
         /\ f.thrown = <<[kind |-> "Error",
                          message |-> [soft |-> FALSE, text |-> "predicate failed",
                                       who |-> <<"", 0>>, num |-> 0],
                          stack |-> "stack"]>>
         /\ f.calls = 0
  /\ \A t \in DOMAIN tasks :
       /\ PredicateThrows(TestsToRun[t]) =>
            /\ tasks[t].stage \in {"pending", "beforeEach", "test", "rejected"}
            /\ EntriesOf(report.tests, TestsToRun[t].description) = {}
       /\ tasks[t].stage = "rejected" => pc = "rejected"
  /\ (\E t \in DOMAIN tasks : PredicateThrows(TestsToRun[t])) =>
       pc \notin {"afterAll", "done"}

C17_Witness ==
  /\ pc = "rejected"
  /\ Len(report.tests) = 1
  /\ \E t \in DOMAIN tasks :
       /\ PredicateThrows(TestsToRun[t])
       /\ tasks[t].stage = "rejected"

\* C18: a result of status "failed" that execute() of a test returns has an
\* error of which the message and the stack are defined, whatever the body
\* threw; a result of status "passed" or "skipped" has no error.
C18_FailedCarriesMessageAndStack ==
  \A f \in TestFrames :
    f.phase = "returned" =>
      /\ f.result.status = "failed" =>
           /\ f.result.error # <<>>
           /\ f.result.error[1].message.text # "undefined"
           /\ f.result.error[1].stack # "undefined"
      /\ f.result.status \in {"passed", "skipped"} => f.result.error = <<>>

\* C19: a result of status passed, failed or soft-fail, of an execution that
\* invoked the body of the test, has retries = (number of invocations) - 1.
C19_RetriesIsAttemptsMinusOne ==
  \A f \in TestFrames :
    (/\ f.phase = "returned"
     /\ f.result.status \in {"passed", "failed", "soft-fail"}
     /\ f.calls >= 1) =>
      f.result.retries = f.calls - 1

Registrations ==
  Range(TestsToRun)
    \cup {TheHook(phase) : phase \in {ph \in Phases : HasHook(ph)}}

BodySettlesOrTimesOut(executable) ==
  executable.fn # "hang" \/ executable.options.timeout > 0

C21_RunCompletesUnlessPredicateThrows ==
  (/\ \A e \in Registrations : ~PredicateThrows(e)
   /\ \A e \in Registrations : BodySettlesOrTimesOut(e)) =>
    pc # "rejected"

\* C28: after n invocations of a tracked function since its records were
\* last emptied, getAllArgs() is the list of the n argument lists in the
\* order of the invocations, and every call record has either a returned
\* value or a thrown error, never both and never neither.
C28_ArgsInInvocationOrder ==
  /\ getAllArgs(trackFn) = last.invoked
  /\ \A k \in DOMAIN trackFn.calls :
       Len(trackFn.calls[k].returned) + Len(trackFn.calls[k].threw) = 1

C28_Witness ==
  /\ last.op = "invoke"
  /\ getAllArgs(trackFn) = << <<1, 2>>, <<3, 4>> >>
  /\ trackFn.calls[1].threw # <<>>
  /\ trackFn.calls[2].returned # <<>>

\* C29: after reset() getAllArgs() is empty and no override is left,
\* whatever was recorded and overridden before; the invocation that follows
\* a reset() is answered by the wrapped implementation and is the first and
\* only call record.
C29_ResetRestoresOriginal ==
  /\ last.op = "reset" =>
       /\ getAllArgs(trackFn) = <<>>
       /\ trackFn.override.kind = "none"
  /\ (last.op = "invoke" /\ last.prev = "reset") =>
       /\ Len(trackFn.calls) = 1
       /\ trackFn.calls[1].args = last.args
       /\ trackFn.calls[1].returned =
            (CASE trackFn.original = "add" -> <<last.args[1] + last.args[2]>>
               [] trackFn.original = "constant" -> <<42>>
               [] OTHER -> <<>>)
       /\ trackFn.calls[1].threw =
            (IF trackFn.original = "throwing" THEN <<"Original error">> ELSE <<>>)

C29_Witness ==
  /\ last.op = "reset"
  /\ last.before.override.kind = "return"
  /\ Len(last.before.calls) = 2
  /\ trackFn.calls = <<>>

\* C30: after clear() getAllArgs() is empty, the override is the one there
\* was before, and wasCalled() is true if it was true before; the
\* invocation that follows a clear() is answered by that override.
C30_ClearKeepsOverride ==
  /\ last.op = "clear" =>
       /\ getAllArgs(trackFn) = <<>>
       /\ trackFn.override = last.before.override
       /\ wasCalled(last.before) => wasCalled(trackFn)
  /\ (last.op = "invoke" /\ last.prev = "clear") =>
       /\ Len(trackFn.calls) = 1
       /\ trackFn.override.kind = "return" =>
            trackFn.calls[1].returned = <<trackFn.override.value>>
       /\ trackFn.override.kind = "throw" =>
            trackFn.calls[1].threw = <<trackFn.override.value>>
       /\ trackFn.override.kind = "use" =>
            trackFn.calls[1].returned = <<last.args[1] * last.args[2]>>

C30_Witness ==
  /\ last.op = "invoke"
  /\ last.prev = "clear"
  /\ trackFn.override.kind = "return"
  /\ trackFn.original = "add"
  /\ trackFn.calls[1].returned = <<5>>
  /\ wasCalled(trackFn)

\* C22: a matcher that needs no tracked value, called on the Assertion
\* itself, obeys the mode: in throwing mode it returns the Assertion or
\* raises an AssertionError that carries the name of the matcher; in
\* boolean mode it returns true or false and raises nothing.
C22_PlainMatchersObeyMode ==
  (last.op = "call" /\ last.via = "target" /\ last.call \in PlainCalls) =>
    IF assertion.throws
    THEN \/ last.outcome = [kind |-> "returned", value |-> "this", error |-> NoError]
         \/ /\ last.outcome.kind = "raised"
            /\ last.outcome.error.class = "AssertionError"
            /\ last.outcome.error.matcher = last.call.name
    ELSE /\ last.outcome.kind = "returned"
         /\ last.outcome.value \in {"true", "false"}

\* C23: `not` inverts the polarity of the next matcher call only: a matcher
\* is evaluated with inverted polarity exactly when `not` was read an odd
\* number of times since the matcher call before it.
C23_NotInvertsNextCallOnly ==
  last.op = "call" => (last.negated <=> last.nots % 2 = 1)

\* C24: a matcher of the tracker's query surface called for an untracked
\* value raises an error, in throwing and in boolean mode, negated or not,
\* on the Assertion and through its proxies; it never returns.
C24_UntrackedAlwaysRaises ==
  (last.op = "call" /\ last.call \in TrackedCalls /\ ~assertion.isTracked) =>
    /\ last.outcome.kind = "raised"
    /\ last.outcome.error.class = "Error"
    /\ last.via # "resolves" =>
         /\ last.outcome.error.matcher = last.call.name
         /\ last.outcome.error.text = "can only be used with tracked functions"

C24_Witness ==
  /\ last.op = "call"
  /\ last.call.name = "toHaveReturnedWith"
  /\ last.via = "target"
  /\ last.negated
  /\ ~assertion.throws
  /\ assertion.received = JsNumber(42)
  /\ last.outcome.kind = "raised"

\* C25: a matcher called through resolves on a value that fulfils has the
\* outcome of the same matcher called on the fulfilled value, when that is
\* a return or the AssertionError of the matcher; the error
\* "Expected Promise to resolve but it rejected" is raised only when the
\* received promise rejected.
DirectOutcome(value) ==
  Matcher([received |-> value, isNot |-> last.negated,
           isTracked |-> assertion.isTracked, throws |-> assertion.throws],
          last.call, trackFn)

C25_ResolvesAsDirect ==
  (last.op = "call" /\ last.via = "resolves") =>
    /\ last.settled = "fulfilled" =>
         LET direct == DirectOutcome(Awaited(last.before).value)
         IN  direct.error.class \in {"", "AssertionError"} =>
               /\ last.outcome = direct
               /\ last.outcome.error.text
                    # "Expected Promise to resolve but it rejected with"
    /\ last.settled = "rejected" =>
         /\ last.outcome.kind = "raised"
         /\ last.outcome.error.text
              = "Expected Promise to resolve but it rejected with"

\* C26: a matcher called through rejects on a value that fulfils fails,
\* whatever the matcher: it raises, or returns false in boolean mode; on
\* a promise that rejects the matcher is evaluated against the reason.
C26_RejectsFailsOnFulfilment ==
  (last.op = "call" /\ last.via = "rejects") =>
    /\ last.settled = "fulfilled" =>
         \/ last.outcome.kind = "raised"
         \/ last.outcome.value = "false"
    /\ last.settled = "rejected" =>
         /\ assertion.received = Awaited(last.before).value
         /\ last.outcome = DirectOutcome(Awaited(last.before).value)

\* C27: toHaveReturnedWith(v) on a tracked function, not negated, passes if
\* and only if one of the recorded return values equals v.
C27_ReturnedWithIffSomeEqual ==
  (/\ last.op = "call"
   /\ last.via = "target"
   /\ last.call.name = "toHaveReturnedWith"
   /\ assertion.received = JsTracked
   /\ ~last.negated) =>
    (last.outcome.value \in {"this", "true"}
       <=> \E k \in DOMAIN getReturnValues(trackFn) :
             getReturnValues(trackFn)[k] = last.call.n)

\* C34: the error of a failed or soft-fail result is {message, stack} of the
\* failure of the last attempt, the message being exactly that of the last
\* failure, for failed and soft-fail alike.
LastFailure(f) ==
  CASE f.exe.fn \in {"throwError", "flaky"} ->
         [message |-> [soft |-> FALSE, text |-> "body failed",
                       who |-> f.exe.description, num |-> f.calls],
          stack |-> "stack"]
    [] f.exe.fn \in {"slow", "hang"} ->
         [message |-> ExceededMessage(f), stack |-> "stack"]
    [] OTHER ->
         [message |-> [soft |-> FALSE, text |-> "undefined", who |-> <<"", 0>>,
                       num |-> 0],
          stack |-> "undefined"]

EndedInFailure(f) ==
  f.phase = "returned" /\ f.result.status \in {"failed", "soft-fail"}

C34_ErrorIsLastFailure ==
  \A f \in Frames :
    EndedInFailure(f) => f.result.error = <<LastFailure(f)>>

\* C34, amended: the error of a failed or soft-fail result is taken from the
\* failure of the last attempt: its stack, and its message, as it is in a
\* failed result and after "Soft failure: " in a soft-fail result.
C34_ErrorIsLastFailureSoftPrefixed ==
  \A f \in Frames :
    EndedInFailure(f) =>
      /\ Len(f.result.error) = 1
      /\ f.result.error[1].stack = LastFailure(f).stack
      /\ f.result.error[1].message =
           [LastFailure(f).message EXCEPT !.soft = (f.result.status = "soft-fail")]

C34_Witness ==
  \E f \in Frames :
    /\ EndedInFailure(f)
    /\ f.result.status = "soft-fail"
    /\ f.calls = 2
    /\ f.exe.fn = "flaky"
    /\ f.result.error[1].message.num = 2
    /\ f.result.error[1].message.soft

\* C35: every selected test appears exactly once in report.tests when run()
\* completes; the results of a batch precede those of every later batch;
\* within a batch a result is appended at the end when its test finishes,
\* so the order is the order of finishing, which may differ from the order
\* of registration (C35_Witness); and the stats counters of a completed run
\* are the numbers of selected tests of each kind, whatever the
\* interleaving.
BatchOf(description) ==
  CHOOSE b \in DOMAIN batches :
    \E k \in DOMAIN batches[b] :
      TestsToRun[batches[b][k]].description = description

ExpectedStatus(executable) ==
  IF executable.options.skip THEN "skipped"
  ELSE IF executable.fn = "pass" THEN "passed"
  ELSE IF executable.options.softFail THEN "soft-fail"
  ELSE "failed"

Expected(status) ==
  Cardinality({t \in DOMAIN TestsToRun : ExpectedStatus(TestsToRun[t]) = status})

C35_ReportedInOrder ==
  /\ \A k, l \in DOMAIN report.tests :
       k < l => BatchOf(report.tests[k].description)
                  <= BatchOf(report.tests[l].description)
  /\ pc = "done" =>
       /\ Len(report.tests) = Len(TestsToRun)
       /\ \A t \in DOMAIN TestsToRun :
            Cardinality(EntriesOf(report.tests, TestsToRun[t].description)) = 1
       /\ report.stats.passed = Expected("passed")
       /\ report.stats.failed = Expected("failed")
       /\ report.stats.skipped = Expected("skipped")
       /\ report.stats.softFailed = Expected("soft-fail")

C35_AppendedWhenFinished ==
  report'.tests # report.tests =>
    \E t \in DOMAIN tasks :
      /\ tasks[t].stage = "test"
      /\ tasks[t].cur[1].phase = "returned"
      /\ tasks[t].cur[1].exe = TestsToRun[t]
      /\ tasks'[t].stage # "test"
      /\ report'.tests = Append(report.tests, tasks[t].cur[1].result)

C35_ReportOrder == [] C35_ReportedInOrder /\ [][C35_AppendedWhenFinished]_vars

C35_Witness ==
  /\ pc = "done"
  /\ Len(batches) = 1
  /\ Len(report.tests) = 2
  /\ report.tests[1].description = TestsToRun[2].description
  /\ report.tests[2].description = TestsToRun[1].description
  /\ report.stats.passed = 1
  /\ report.stats.failed = 1

\* C36: when run() completes, report.hooks has one entry for beforeAll if
\* it is registered, one beforeEach and one afterEach entry per selected
\* test for those that are registered, and one for afterAll if it is
\* registered; the each-hooks are executed and recorded for a skipped test
\* as for any other; and a test's beforeEach entry precedes its afterEach
\* entry: there are as many beforeEach entries as tests that went past
\* their beforeEach, as many afterEach entries as tests that went past
\* their afterEach, and no prefix of report.hooks holds more afterEach
\* than beforeEach entries.
Registration(phase) == IF HasHook(phase) THEN 1 ELSE 0

HookEntries(phase, upTo) ==
  Cardinality({k \in EntriesOf(report.hooks, <<phase, 0>>) : k <= upTo})

C36_HookEntriesPerTest ==
  /\ pc = "done" =>
       /\ Len(report.hooks)
            = Registration("beforeAll")
              + Len(TestsToRun)
                  * (Registration("beforeEach") + Registration("afterEach"))
              + Registration("afterAll")
       /\ \A p \in {"beforeEach", "afterEach"} :
            HookEntries(p, Len(report.hooks)) = Len(TestsToRun) * Registration(p)
  /\ HasHook("beforeEach") =>
       HookEntries("beforeEach", Len(report.hooks))
         = Cardinality(TasksIn({"test", "afterEach", "done", "rejected"}))
  /\ HasHook("afterEach") =>
       HookEntries("afterEach", Len(report.hooks))
         = Cardinality(TasksIn({"done"}))
  /\ (HasHook("beforeEach") /\ HasHook("afterEach")) =>
       \A k \in DOMAIN report.hooks :
         HookEntries("afterEach", k) <= HookEntries("beforeEach", k)
  /\ \A t \in DOMAIN tasks :
       (TestsToRun[t].options.skip /\ tasks[t].stage = "done") =>
         /\ tasks[t].result = <<>> \/ tasks[t].result[1].status = "skipped"
         /\ HookEntries("beforeEach", Len(report.hooks))
              >= Registration("beforeEach")
         /\ HookEntries("afterEach", Len(report.hooks))
              >= Registration("afterEach")

C36_Witness ==
  /\ pc = "done"
  /\ Len(TestsToRun) = 2
  /\ TestsToRun[1].options.skip
  /\ report.tests[1].status = "skipped"
  /\ Len(report.hooks) = 6
  /\ report.hooks[2].description = <<"beforeEach", 0>>
  /\ report.hooks[3].description = <<"beforeEach", 0>>
  /\ report.hooks[2].status = "passed"

\* C37: a hook's result, whatever its status, changes none of the counters
\* passed, failed, skipped and softFailed, nor report.status and
\* report.tests; and it prevents nothing that follows: when a beforeEach
\* returns, whatever its result, the test is executed next and its body is
\* invoked unless the test itself is skipped, and when the test returns,
\* whatever its result, the afterEach is executed next if there is one.
C37_HookPushKeepsStats ==
  report'.hooks # report.hooks =>
    /\ report'.stats.passed = report.stats.passed
    /\ report'.stats.failed = report.stats.failed
    /\ report'.stats.skipped = report.stats.skipped
    /\ report'.stats.softFailed = report.stats.softFailed
    /\ report'.status = report.status
    /\ report'.tests = report.tests

C37_TaskGoesOn ==
  \A t \in DOMAIN tasks :
    /\ (tasks[t].stage = "beforeEach" /\ tasks'[t] # tasks[t]
          /\ tasks[t].cur[1].phase = "returned") =>
         /\ tasks'[t].stage = "test"
         /\ tasks'[t].cur[1].exe = TestsToRun[t]
         /\ report'.hooks = Append(report.hooks, tasks[t].cur[1].result)
    /\ (tasks[t].stage = "test" /\ tasks'[t] # tasks[t]
          /\ tasks[t].cur[1].phase = "returned") =>
         /\ tasks[t].cur[1].result.status = ExpectedStatus(TestsToRun[t])
         /\ ~TestsToRun[t].options.skip => tasks[t].cur[1].calls >= 1
         /\ HasHook("afterEach") =>
              /\ tasks'[t].stage = "afterEach"
              /\ tasks'[t].cur[1].exe = TheHook("afterEach")
              /\ tasks'[t].cur[1].phase # "returned"
                   \/ tasks'[t].cur[1].exe.options.skip

C37_HooksHaveNoEffect ==
  [][C37_HookPushKeepsStats /\ C37_TaskGoesOn]_vars

C37_Witness ==
  /\ pc = "done"
  /\ Len(TestsToRun) = 1
  /\ Len(report.hooks) = 4
  /\ \A k \in DOMAIN report.hooks : report.hooks[k].status = "failed"
  /\ report.tests[1].status = "passed"
  /\ report.stats.passed = 1
  /\ report.stats.failed = 0
  /\ report.status = "passed"

\* C38: in one execution the `if` predicate is invoked at most once; it is
\* invoked while no attempt has been made yet, and the number of its
\* invocations stays what it was at the first attempt through every retry;
\* it is not invoked when skip is true, nor when `if` is not a function.
C38_PredicateOnceBeforeAttempts ==
  \A f \in Frames :
    /\ f.predCalls <= 1
    /\ f.exe.options.skip => f.predCalls = 0
    /\ ~IsFunction(f.exe.options.if) => f.predCalls = 0
    /\ f.phase = "gate" => f.calls = 0
    /\ (IsFunction(f.exe.options.if) /\ ~f.exe.options.skip) => f.predCalls = 1
    /\ f.calls >= 1 => ~f.exe.options.skip

C38_Witness ==
  \E f \in Frames :
    /\ f.exe.options.if = "fnTrue"
    /\ f.exe.options.retry = 2
    /\ f.calls = 3
    /\ f.predCalls = 1
    /\ f.phase = "returned"
    /\ f.result.status = "failed"

\* C39: when a condition predicate throws in a batch, run() fails at once;
\* from then on no test of a later batch is started, afterAll is not
\* executed, and the loop index, the batches and the counters stay as they
\* are.  The sibling executions of the batch that were in flight run on:
\* the report changes only by their results being appended
\* (C39_HaltedAfterFailure).  The original statement adds that the report
\* does not change at all once run() has failed (C39_NothingAfterFailure).
StartedTests == UNION {Range(batches[b]) : b \in DOMAIN batches}

C39_FailedRun ==
  /\ (\E t \in DOMAIN tasks : tasks[t].stage = "rejected") => pc = "rejected"
  /\ pc = "rejected" =>
       /\ main = <<>>
       /\ EntriesOf(report.hooks, <<"afterAll", 0>>) = {}
       /\ \A t \in DOMAIN tasks : t \notin StartedTests => tasks[t] = PendingTask
       /\ \A k \in DOMAIN report.tests :
            \E t \in StartedTests :
              report.tests[k].description = TestsToRun[t].description

C39_Halted ==
  pc = "rejected" =>
    /\ pc' = "rejected"
    /\ batches' = batches
    /\ i' = i
    /\ main' = main
    /\ report'.stats = report.stats
    /\ report'.status = report.status
    /\ report' # report =>
         \E t \in Range(batches[Len(batches)]) :
           /\ tasks[t].cur # <<>>
           /\ tasks[t].cur[1].phase = "returned"
           /\ \/ report' = PushTest(report, tasks[t].cur[1].result)
              \/ report' = PushHook(report, tasks[t].cur[1].result)

C39_Untouched == pc = "rejected" => report' = report

C39_HaltedAfterFailure == [] C39_FailedRun /\ [][C39_Halted]_vars

C39_NothingAfterFailure ==
  [] C39_FailedRun /\ [][C39_Halted /\ C39_Untouched]_vars

C39_Witness ==
  /\ pc = "rejected"
  /\ maxParallelTests = 1
  /\ Len(TestsToRun) = 2
  /\ tasks[1].stage = "rejected"
  /\ tasks[2] = PendingTask
  /\ HasHook("afterAll")
  /\ HasHook("beforeEach")
  /\ Len(report.hooks) = 2
  /\ report.tests = <<>>

\* C40: a matcher called as resolves.not.<matcher> on a promise that
\* fulfils, or as rejects.not.<matcher> on one that rejects, is evaluated
\* against the settled value with the polarity of the Assertion: the
\* Assertion holds the settled value afterwards, and the call returns what
\* the matcher returns on that value, or raises when the matcher raises on
\* it.
NotAfterProjection == projection # "" /\ chain = "target"

SettlesAs(value, read) ==
  /\ value.type = "promise"
  /\ Awaited(value).how = (IF read = "resolves" THEN "fulfilled" ELSE "rejected")

OnSettled(a) == [a EXCEPT !.received = Awaited(a.received).value]

C40_Step ==
  (NotAfterProjection /\ projection' = ""
     /\ SettlesAs(assertion.received, projection)) =>
    LET expected == Matcher(OnSettled(assertion), last'.call, trackFn)
    IN  /\ last'.op = "call"
        /\ assertion'.received = Awaited(assertion.received).value
        /\ expected.kind = "returned" => last'.outcome = expected
        /\ expected.kind = "raised" => last'.outcome.kind = "raised"

C40_NegationThroughProjection == [][C40_Step]_vars

\* C31: over values without cycles nested up to MaxNesting deep, equal(a, a)
\* is true for every a, and equal(a, b) = equal(b, a) for every a and b.
Compared == last.op = "compare" /\ ~isCircular(last.a) /\ ~isCircular(last.b)

C31_EqualReflexiveSymmetric ==
  Compared =>
    /\ ~last.equal.raised
    /\ last.a = last.b => last.equal.verdict
    /\ equal(last.a, last.a).verdict
    /\ equal(last.b, last.b).verdict
    /\ last.equal.verdict = equal(last.b, last.a).verdict

C31_Witness ==
  /\ Compared
  /\ last.a = Obj(<<"a", "b">>, <<Arr(<<Num(2)>>), Num(1)>>)
  /\ last.b = Obj(<<"b", "a">>, <<Num(1), Arr(<<Num(2)>>)>>)
  /\ last.equal.verdict

\* C32: for values without cycles, diff(a, b) reports differences exactly
\* when equal(a, b) is false, and toEqual(expected) passes exactly when the
\* received value and expected are structurally equal;
\* assert({a:1,b:{c:2}}).toEqual({a:1,b:{c:2}}) passes and
\* assert({a:1}).toEqual({a:2}) raises.
CalledToEqual ==
  /\ last.op = "call"
  /\ last.call.name = "toEqual"
  /\ ~isCircular(last.before)
  /\ ~isCircular(last.call.expected)

Passed(outcome) == outcome.kind = "returned" /\ outcome.value \in {"this", "true"}

C32_DiffIffNotEqual ==
  /\ Compared =>
       /\ ~last.diff.raised
       /\ last.diff.hasDiffs = ~last.equal.verdict
       /\ last.diff.hasDiffs = (last.diff.diffs # {})
  /\ CalledToEqual =>
       /\ Passed(last.outcome) = equal(last.before, last.call.expected).verdict
       /\ ~Passed(last.outcome) =>
            last.outcome = IF assertion.throws
                           THEN Raises(AssertionError("toEqual"))
                           ELSE ReturnsValue("false")
       /\ ( /\ last.before = Obj(<<"a", "b">>, <<Num(1), Obj(<<"c">>, <<Num(2)>>)>>)
            /\ last.call.expected = last.before ) => Passed(last.outcome)
       /\ ( /\ last.before = Obj(<<"a">>, <<Num(1)>>)
            /\ last.call.expected = Obj(<<"a">>, <<Num(2)>>)
            /\ assertion.throws ) =>
            last.outcome = Raises(AssertionError("toEqual"))

C32_Witness ==
  /\ CalledToEqual
  /\ assertion.throws
  /\ last.before = Obj(<<"a", "b">>, <<Num(1), Obj(<<"c">>, <<Num(2)>>)>>)
  /\ last.call.expected = Obj(<<"b", "a">>, <<Obj(<<"c">>, <<Num(2)>>), Num(1)>>)
  /\ last.outcome = ReturnsValue("this")

\* C33: when either compared value is circular, equal and diff fail with a
\* CircularReferenceError and give no verdict, and so do toBe and toEqual,
\* in throwing and in boolean mode alike; execute() catches that error
\* when a test body raises it: after the retries the test ends failed, or
\* soft-fail when softFail is set, with the error's message, and execute()
\* returns, so that run() goes on.
CircularThrown ==
  ErrorValue([soft |-> FALSE, text |-> CircularReferenceError.text,
              who |-> <<"", 0>>, num |-> 0])

RECURSIVE Attempts(_, _)
Attempts(f, thrown) ==
  IF f.phase # "running"
  THEN f
  ELSE Attempts(AfterAttempt(f, Outcome("throw", <<thrown>>, "none")), thrown)

ExecuteThrowing(options, thrown) ==
  Attempts(AfterGate(Begin(Executable(<<"test", 1>>, "compare", options))),
           thrown)

CaughtByExecute(thrown) ==
  \A retry \in 0..MaxRetry, softFail \in BOOLEAN :
    LET f == ExecuteThrowing([DefaultOptions EXCEPT !.retry = retry,
                                                   !.softFail = softFail],
                             thrown)
    IN  /\ f.phase = "returned"
        /\ f.calls = retry + 1
        /\ f.result.status = IF softFail THEN "soft-fail" ELSE "failed"
        /\ Len(f.result.error) = 1
        /\ f.result.error[1].message.text = thrown.message.text

C33_CircularFails ==
  /\ (last.op = "compare" /\ (isCircular(last.a) \/ isCircular(last.b))) =>
       /\ last.equal.raised
       /\ last.diff.raised
       /\ ~last.diff.hasDiffs
  /\ ( /\ last.op = "call"
       /\ last.call.name \in {"toBe", "toEqual"}
       /\ isCircular(last.before) \/ isCircular(last.call.expected) ) =>
       /\ last.outcome = Raises(CircularReferenceError)
       /\ CaughtByExecute(CircularThrown)

C33_Witness ==
  /\ last.op = "call"
  /\ last.call.name = "toBe"
  /\ ~assertion.throws
  /\ last.before = Arr(<<Cycle>>)
  /\ last.call.expected = Num(1)
  /\ last.outcome = Raises(CircularReferenceError)

====
